---------------------------- MODULE Spec2Model ----------------------------
(***************************************************************************)
(* A model of the Another World interpreter (rhilseth/another-world):      *)
(*   - the bytecode VM's thread scheduler (src/src/vm.rs, engine.rs),      *)
(*   - the resource arena (src/src/resource.rs),                           *)
(*   - the mixer, the Sfx player's timer thread and the audio callback     *)
(*     (src/src/mixer.rs, src/src/sfxplayer.rs),                           *)
(*   - the video pages, palette staging and frame pacing                   *)
(*     (src/src/video.rs, src/src/sys.rs).                                 *)
(*                                                                         *)
(* The specifications share the module's variables:                        *)
(*   SpecVM    the VM thread alone: Engine::run, host_frame and the        *)
(*             opcodes' effect on threads, cursor and part state;          *)
(*   SpecAudio the VM's audio operations interleaved with the timer        *)
(*             thread and the audio callback thread;                       *)
(*   SpecRes   the resource manager's operations on the arena;             *)
(*   SpecLoad  the resource manager's calls step by step, with the copies  *)
(*             into the arena and the unpacker's checksum;                 *)
(*   SpecMix   the mixer's channels with their samples and volumes, and    *)
(*             the samples the audio callback writes;                      *)
(*   SpecBlit  BlitFrameBuffer's pacing against the clock;                 *)
(*   SpecCall  Call and Ret on the call stack of a slice;                  *)
(*   SpecReset ResetThread on every state of the thread table;             *)
(*   SpecPage  the page pointers, the palette request and update_display;  *)
(*   SpecJmp   CondJmp on its opcode byte, operands and target;            *)
(*   SpecCopy  CopyVideoPage with the scroll variable;                     *)
(*   SpecSprite DrawPolySprite on its opcode byte and operands;            *)
(*   SpecPlay  the audio callback on one channel PlaySound started;        *)
(*   SpecSeq   the Sfx player's walk through the order table;              *)
(*   SpecPoly  read_polygons on polygon streams with hierarchies;          *)
(*   SpecLast  Engine::run with the requests of a frame recorded.          *)
(* The bytecode is arbitrary: every fetched byte is a nondeterministic     *)
(* choice, so a property of SpecVM holds for every script.                  *)
(***************************************************************************)
EXTENDS Integers, Sequences, FiniteSets, TLC

(***************************************************************************)
(* Bounds of the model.                                                    *)
(***************************************************************************)
\* threads modelled (the program has NUM_THREADS = 64, vm.rs:20)
NumThreads == 2
\* largest bytecode offset a cursor may reach
MaxPc == 1
\* music modules started in one run
MaxStarts == 2
\* sound entries of the mem list of SpecRes
NumSounds == 5

(***************************************************************************)
(* Program constants.                                                      *)
(***************************************************************************)
SET_INACTIVE_THREAD == 65534
INACTIVE_THREAD == 65535
GAME_PART_FIRST == 16000
GAME_PART_LAST == 16009
MEM_BLOCK_SIZE == 614400
VID_REGION == 32768
NUM_CHANNELS == 4
\* Option::None of an Option<usize> / Option<u16> field
None == -1

(***************************************************************************)
(* parts.rs: the immutable part table.  video2 = None for parts without a  *)
(* secondary polygon resource.                                             *)
(***************************************************************************)
Part(palette, code, video1, video2) ==
    [palette |-> palette, code |-> code, video1 |-> video1, video2 |-> video2]

PARTS ==
    << Part(20, 21, 22, None),  Part(23, 24, 25, None),
       Part(26, 27, 28, 17),    Part(29, 30, 31, 17),
       Part(32, 33, 34, 17),    Part(35, 36, 37, None),
       Part(38, 39, 40, 17),    Part(41, 42, 43, 17),
       Part(125, 126, 127, None), Part(125, 126, 127, None) >>

(***************************************************************************)
(* resource.rs: MemEntry and the Resource record.                          *)
(* The mem list is a function from mem-list index to MemEntry; the model   *)
(* keeps the entries the part table names plus a few loadable ones.        *)
(* `bank` stands for what read_bank / Bank::data yield for the entry:      *)
(* "ok", "io" (read_bank returns Err) or "crc" (the bank is compressed and *)
(* Unpacker::unpack ends with a crc register that is not zero).            *)
(***************************************************************************)
MemEntry(entry_type, rank_num, bank_id, size, bank) ==
    [state |-> "NotNeeded", entry_type |-> entry_type, buf_ptr |-> 0,
     rank_num |-> rank_num, bank_id |-> bank_id, size |-> size, bank |-> bank]

\* Resource::new
ResourceNew(mem_list) ==
    [mem_list |-> mem_list,
     current_part_id |-> 0,
     script_bak_ptr |-> 0,
     script_cur_ptr |-> 0,
     vid_bak_ptr |-> MEM_BLOCK_SIZE - VID_REGION,
     vid_cur_ptr |-> MEM_BLOCK_SIZE - VID_REGION,
     seg_palettes |-> 0,
     seg_bytecode |-> 0,
     seg_cinematic |-> 0,
     seg_video2 |-> 0,
     copy_vid_ptr |-> FALSE,
     panic |-> ""]

\* a faulty invalidate_all, which leaves the cursor where it is
invalidate_all_keep(r) ==
    [r EXCEPT !.mem_list = [i \in DOMAIN r.mem_list |->
                               [r.mem_list[i] EXCEPT !.state = "NotNeeded"]]]

\* Resource::invalidate_all
invalidate_all(r) ==
    [r EXCEPT !.mem_list = [i \in DOMAIN r.mem_list |->
                               [r.mem_list[i] EXCEPT !.state = "NotNeeded"]],
              !.script_cur_ptr = 0]

\* a faulty loop body, which loads without looking at the room left (C10
\* rejects it)
load_entry_unchecked(r, i) ==
    LET entry == r.mem_list[i] IN
    IF entry.bank_id = 0
      THEN [r EXCEPT !.mem_list[i].state = "NotNeeded"]
    ELSE IF entry.bank = "io"
      THEN [r EXCEPT !.panic = "Could not read bank"]
    ELSE IF entry.bank = "crc"
      THEN [r EXCEPT !.panic = "CRC Error"]
    ELSE IF entry.entry_type = "PolyAnim"
      THEN [r EXCEPT !.copy_vid_ptr = TRUE,
                     !.mem_list[i].state = "NotNeeded"]
    ELSE [r EXCEPT !.mem_list[i].buf_ptr = r.script_cur_ptr,
                   !.mem_list[i].state = "Loaded",
                   !.script_cur_ptr = r.script_cur_ptr + entry.size]

\* One iteration of the loop of load_marked_as_needed, for the entry at
\* index i (which is in state LoadMe).
load_entry(r, i) ==
    LET entry == r.mem_list[i] IN
    IF entry.entry_type # "PolyAnim"
       /\ entry.size > r.vid_bak_ptr - r.script_cur_ptr
      THEN [r EXCEPT !.mem_list[i].state = "NotNeeded"]
    ELSE IF entry.bank_id = 0
      THEN [r EXCEPT !.mem_list[i].state = "NotNeeded"]
    ELSE IF entry.bank = "io"
      THEN [r EXCEPT !.panic = "Could not read bank"]
    ELSE IF entry.entry_type = "PolyAnim"
            /\ r.vid_cur_ptr + entry.size > MEM_BLOCK_SIZE
      THEN [r EXCEPT !.panic = "range end index out of range"]
    ELSE IF entry.bank = "crc"
      THEN [r EXCEPT !.panic = "CRC Error"]
    ELSE IF entry.entry_type = "PolyAnim"
      THEN [r EXCEPT !.copy_vid_ptr = TRUE,
                     !.mem_list[i].state = "NotNeeded"]
    ELSE [r EXCEPT !.mem_list[i].buf_ptr = r.script_cur_ptr,
                   !.mem_list[i].state = "Loaded",
                   !.script_cur_ptr = r.script_cur_ptr + entry.size]

MinOf(S) == CHOOSE m \in S : \A x \in S : m <= x

\* Resource::load_marked_as_needed: the entries that are LoadMe when the
\* pass begins (to_load), in mem-list order.  A panic ends the pass.
RECURSIVE load_all(_, _)
load_all(r, to_load) ==
    IF r.panic # "" \/ to_load = {} THEN r
    ELSE LET i == MinOf(to_load)
         IN load_all(load_entry(r, i), to_load \ {i})

load_marked_as_needed(r) ==
    load_all(r, {i \in DOMAIN r.mem_list : r.mem_list[i].state = "LoadMe"})

\* Resource::setup_part
setup_part(r, part_id) ==
    IF part_id = r.current_part_id THEN r
    ELSE IF part_id < GAME_PART_FIRST \/ part_id > GAME_PART_LAST
      THEN [r EXCEPT !.panic = "Unknown part"]
    ELSE
      LET p  == PARTS[part_id - GAME_PART_FIRST + 1]
          needed == {p.palette, p.code, p.video1} \cup
                    (IF p.video2 # None THEN {p.video2} ELSE {})
          r1 == invalidate_all(r)
          r2 == [r1 EXCEPT !.mem_list = [i \in DOMAIN r1.mem_list |->
                    IF i \in needed
                      THEN [r1.mem_list[i] EXCEPT !.state = "LoadMe"]
                      ELSE r1.mem_list[i]]]
          r3 == load_marked_as_needed(r2)
      IN IF r3.panic # "" THEN r3
         ELSE [r3 EXCEPT
                 !.seg_palettes = r3.mem_list[p.palette].buf_ptr,
                 !.seg_bytecode = r3.mem_list[p.code].buf_ptr,
                 !.seg_cinematic = r3.mem_list[p.video1].buf_ptr,
                 !.seg_video2 = IF p.video2 # None
                                  THEN r3.mem_list[p.video2].buf_ptr
                                  ELSE r3.seg_video2,
                 !.current_part_id = part_id,
                 !.script_bak_ptr = r3.script_cur_ptr]

\* a faulty invalidate_resource, which resets the entries of every type
invalidate_resource_every(r) ==
    [r EXCEPT !.mem_list = [i \in DOMAIN r.mem_list |->
                 [r.mem_list[i] EXCEPT !.state = "NotNeeded"]],
              !.script_cur_ptr = r.script_bak_ptr]

\* Resource::invalidate_resource
invalidate_resource(r) ==
    [r EXCEPT !.mem_list = [i \in DOMAIN r.mem_list |->
                 IF r.mem_list[i].entry_type \in {"PolyAnim", "Unknown"}
                   THEN [r.mem_list[i] EXCEPT !.state = "NotNeeded"]
                   ELSE r.mem_list[i]],
              !.script_cur_ptr = r.script_bak_ptr]

\* Resource::load_memory_entry (resource_id is an index of the mem list)
load_memory_entry(r, resource_id) ==
    IF r.mem_list[resource_id].state = "NotNeeded"
      THEN load_marked_as_needed(
             [r EXCEPT !.mem_list[resource_id].state = "LoadMe"])
      ELSE r

(***************************************************************************)
(* State.                                                                  *)
(***************************************************************************)
VARIABLES
    \* ---- vm.rs: VirtualMachine
    threads,               \* [Thread; NUM_THREADS]
    requested_next_part,   \* Option<u16>
    script_ptr,            \* bytecode cursor (absolute arena offset)
    stack_ptr,
    script_stack_calls,    \* the live part script_stack_calls[0..stack_ptr]
    goto_next_thread,
    resource,              \* resource.rs: Resource
    \* ---- control state of the VM thread (Engine::run / host_frame)
    vm_pc,                 \* "check" | "input" | "frame" | "exec" | "quit" | "panic"
    thread_id,             \* loop index of host_frame
    \* ---- history of the current host frame (not read by any action guard)
    g_frame0,              \* pc / paused flag of every thread when host_frame began
    g_ran,                 \* slices started per thread in this host frame
    g_blit,                \* a BlitFrameBuffer has executed in the current slice
    \* ---- mixer.rs: Mixer behind Arc<RwLock<Mixer>>
    channels,              \* [Option<MixerChannel>; 4]: "none", or who played it
    mixer_lock,            \* holder of the RwLock: "free" | "vm" | "timer" | "audio"
    poisoned,              \* a thread panicked while it held the RwLock
    \* ---- sfxplayer.rs: SfxPlayer, and the VM's end of the mark channel
    timer_guard,           \* Option<Guard>: the schedule it keeps alive
    started,               \* calls of SfxPlayer::start so far
    variable_receiver,     \* Option<Receiver<i16>>: the channel it receives from
    mus_mark,              \* variables[VM_VARIABLE_MUS_MARK]
    aud_pc,                \* VM thread: its position in an audio operation
    \* ---- the timer thread, which runs the closure of SfxPlayer::start
    tick_pc,               \* "idle" | "lock" | "chan" | "send" | "dead"
    tick_sched,            \* the schedule whose closure runs
    tick_ch,               \* ch of handle_events' loop
    tick_mark,             \* variable_value; in "send", the value offered
    \* ---- the audio thread, which runs MixerAudio::callback
    cb_pc,                 \* "idle" | "mixing"
    \* ---- history (not read by any action guard)
    g_stopped,             \* stop() and stop_all() are done, no play issued since
    g_mark,                \* the mark posted on a live channel and not received
    \* ---- resource.rs: a call of the Resource in progress (SpecLoad)
    res_pc,                \* the call in progress and the call that returned last
    to_load,               \* load_marked_as_needed: the entries of to_load not yet visited
    memory,                \* the copies into `memory` of the call in progress
    \* ---- mixer.rs: the Mixer with its samples, and a callback's buffer (SpecMix)
    mixer,                 \* [Option<MixerChannel>; 4]: << >> is None, << c >> is Some(c)
    out,                   \* out: &mut [i8] of the callback in progress
    chan_num,              \* chan_num of the callback's loop over the channels
    \* ---- vm.rs / sys.rs: the clock and the frame pacing (SpecBlit)
    clock,                 \* SDLSys::get_timestamp: ms since the start
    last_timestamp,        \* VirtualMachine::last_timestamp
    variables,             \* the VM variables the model follows, by index
    g_slept,               \* history: the argument of sys.sleep in the last
                           \* BlitFrameBuffer, None when it did not sleep
    \* ---- the message of the panic that ended the VM thread (SpecCall)
    diagnostic,
    \* ---- history of SpecCall
    g_stack,               \* who pushed each live entry of script_stack_calls,
                           \* and whether a slice has started since
    g_left,                \* the threads whose return addresses were on the
                           \* stack when the last slice started
    \* ---- video.rs: Video (SpecPage, SpecCopy)
    pages,                 \* [Page; 4]: the rows of each page, top row first
    palette_requested,     \* Option<Palette>: << >> is None, << p >> is Some(p)
    cur_page_ptr1,
    cur_page_ptr2,
    cur_page_ptr3,
    g_host,                \* history: the calls of the host (SDLSys) made by
                           \* the last Video::update_display, in order
    \* ---- history of SpecJmp
    g_jmp,                 \* the bytes of the CondJmp executed last and the
                           \* offset it was fetched at, << >> before the first
    \* ---- history of SpecSprite
    g_draw,                \* the bytes of the DrawPolySprite executed last and
                           \* the arguments it drew with, << >> before the first
    \* ---- sfxplayer.rs: SfxModule (SpecSeq)
    sfx_module,            \* cur_pos, cur_order and num_order of the module
                           \* the timer thread plays, and the panic of a tick
    \* ---- video.rs: a call of read_polygons in progress (SpecPoly)
    poly,                  \* the stream, the cursor, the hierarchy nodes being
                           \* read and the position in the code
    \* ---- history of the current host frame (SpecVM)
    g_last                 \* for the threads it is kept for (SpecLast: all,
                           \* elsewhere: none) the pc asked for by the last
                           \* SetSetVect / ResetThread mode 2 since
                           \* host_frame began (INACTIVE_THREAD for mode 2),
                           \* and whether the one before it in the frame
                           \* asked for another pc; << >> without one

vm_vars == << threads, requested_next_part, script_ptr, stack_ptr,
              script_stack_calls, goto_next_thread, resource, vm_pc,
              thread_id, g_frame0, g_ran, g_blit >>

aud_vars == << channels, mixer_lock, poisoned, timer_guard, started,
               variable_receiver, mus_mark, aud_pc, tick_pc, tick_sched,
               tick_ch, tick_mark, cb_pc, g_stopped, g_mark >>

load_vars == << res_pc, to_load, memory >>

mix_vars == << mixer, out, chan_num >>

time_vars == << clock, last_timestamp, variables, g_slept >>

call_vars == << diagnostic, g_stack, g_left >>

video_vars == << pages, palette_requested, cur_page_ptr1, cur_page_ptr2,
                 cur_page_ptr3, g_host >>

jmp_vars == << g_jmp, g_draw, sfx_module, poly, g_last >>

more_vars == << call_vars, video_vars, jmp_vars >>

other_vars == << load_vars, mix_vars, time_vars, more_vars >>

vars == << vm_vars, aud_vars, other_vars >>

ThreadIds == 0 .. NumThreads - 1

ChannelIds == 0 .. NUM_CHANNELS - 1

\* Mixer::new, SfxPlayer::new and VirtualMachine::new: nothing plays, no
\* schedule, no receiver; the timer and audio threads are idle
AudioNew ==
    /\ channels = [c \in ChannelIds |-> "none"]
    /\ mixer_lock = "free"
    /\ poisoned = FALSE
    /\ timer_guard = None
    /\ started = 0
    /\ variable_receiver = None
    /\ mus_mark = 0
    /\ aud_pc = "idle"
    /\ tick_pc = "idle"
    /\ tick_sched = None
    /\ tick_ch = 0
    /\ tick_mark = None
    /\ cb_pc = "idle"
    /\ g_stopped = FALSE
    /\ g_mark = None

\* indices of the VM variables the model follows
VM_VARIABLE_SCROLL_Y == 249
VM_VARIABLE_PAUSE_SLICES == 255
VarIds == {1, 2, VM_VARIABLE_SCROLL_Y, VM_VARIABLE_PAUSE_SLICES}

\* SDLSys::new and VirtualMachine::new: the clock starts, the variables
\* are zero
TimeNew ==
    /\ clock = 0
    /\ last_timestamp = 0
    /\ variables = [v \in VarIds |-> 0]
    /\ g_slept = None

\* rows of a page (Video::height)
VideoHeight == 2

PageIndex == 0 .. 3

\* Page::new: every byte 0
PageNew == [y \in 1 .. VideoHeight |-> 0]

\* Video::new
VideoNew ==
    /\ pages = [q \in PageIndex |-> PageNew]
    /\ palette_requested = << >>
    /\ cur_page_ptr1 = 2
    /\ cur_page_ptr2 = 2
    /\ cur_page_ptr3 = 1
    /\ g_host = << >>

\* Cursor::new(&memory[segment..]) and set_position(offset): read_polygons
\* is about to be called on the stream
PolyNew(stream, offset) ==
    [stream |-> stream, pos |-> offset, stack |-> << >>, pc |-> "call",
     polygons |-> 0]

\* SfxModule::new
SfxModuleNew(cur_order, num_order) ==
    [cur_pos |-> 0, cur_order |-> cur_order, num_order |-> num_order,
     panic |-> ""]

\* no thread has panicked
MoreNew ==
    /\ diagnostic = ""
    /\ g_stack = << >>
    /\ g_left = {}
    /\ VideoNew
    /\ g_jmp = << >>
    /\ g_draw = << >>
    /\ sfx_module = SfxModuleNew(0, 1)
    /\ poly = PolyNew(<< >>, 0)
    /\ g_last = << >>

\* no call of the Resource is in progress; Mixer::new, no callback has run
OtherNew ==
    /\ res_pc = [op |-> "idle", arg |-> 0, at |-> "", done |-> "", done_arg |-> 0]
    /\ to_load = {}
    /\ memory = << >>
    /\ mixer = [c \in ChannelIds |-> << >>]
    /\ out = << >>
    /\ chan_num = 0
    /\ TimeNew
    /\ MoreNew

\* Thread::new
ThreadNew ==
    [pc |-> INACTIVE_THREAD,
     requested_pc_offset |-> None,
     is_channel_active_current |-> FALSE,
     is_channel_active_requested |-> FALSE]

\* a & b on naturals
RECURSIVE BitAnd(_, _)
BitAnd(a, b) ==
    IF a = 0 \/ b = 0 THEN 0
    ELSE (a % 2) * (b % 2) + 2 * BitAnd(a \div 2, b \div 2)

\* script_ptr - seg_bytecode
Off == script_ptr - resource.seg_bytecode

\* The cursor may run MaxRun bytes past the last offset a thread may be
\* saved at, so that every opcode fits once.
MaxRun == MaxPc + 6


(***************************************************************************)
(* vm.rs: init_for_part, the part of it that acts on the VM's threads and  *)
(* on the resource manager (the player / mixer calls are SpecAudio's).     *)
(* Yields the new << threads, resource >>; a panic in setup_part leaves    *)
(* the threads alone.                                                      *)
(* init_for_part_keep is a faulty variant, which restarts thread 0 and     *)
(* leaves the other threads and all requests as they are (C5 rejects it).  *)
(***************************************************************************)
init_for_part_keep(ths, r, part_id) ==
    LET r1 == setup_part(r, part_id)
        r2 == [r1 EXCEPT !.copy_vid_ptr = FALSE]
    IN IF r1.panic # "" THEN << ths, r1 >>
       ELSE << [t \in DOMAIN ths |->
                  IF t = 0 THEN [ths[t] EXCEPT !.pc = 0] ELSE ths[t]],
               r2 >>

init_for_part(ths, r, part_id) ==
    LET r1 == setup_part(r, part_id)
        r2 == [r1 EXCEPT !.copy_vid_ptr = FALSE]
    IN IF r1.panic # "" THEN << ths, r1 >>
       ELSE << [t \in DOMAIN ths |->
                  IF t = 0 THEN [ThreadNew EXCEPT !.pc = 0] ELSE ThreadNew],
               r2 >>

\* a faulty synchronisation, which installs the SET_INACTIVE_THREAD
\* sentinel as a pc (C2 rejects it)
sync_thread_raw(thread) ==
    LET t1 == [thread EXCEPT !.is_channel_active_current =
                                 thread.is_channel_active_requested]
    IN IF thread.requested_pc_offset # None
         THEN [t1 EXCEPT !.pc = thread.requested_pc_offset,
                         !.requested_pc_offset = None]
         ELSE t1

\* The loop of check_thread_requests over one thread
sync_thread(thread) ==
    LET t1 == [thread EXCEPT !.is_channel_active_current =
                                 thread.is_channel_active_requested]
    IN IF thread.requested_pc_offset # None
         THEN [t1 EXCEPT !.pc = IF thread.requested_pc_offset = SET_INACTIVE_THREAD
                                  THEN INACTIVE_THREAD
                                  ELSE thread.requested_pc_offset,
                         !.requested_pc_offset = None]
         ELSE t1

\* VirtualMachine::check_thread_requests (first call of Engine::run's loop)
check_thread_requests ==
    /\ vm_pc = "check"
    /\ LET sw == IF requested_next_part # None
                   THEN init_for_part(threads, resource, requested_next_part)
                   ELSE << threads, resource >>
       IN /\ resource' = sw[2]
          /\ IF sw[2].panic # ""
               THEN /\ vm_pc' = "panic"
                    /\ UNCHANGED << threads, requested_next_part >>
               ELSE /\ vm_pc' = "input"
                    /\ requested_next_part' = None
                    /\ threads' = [t \in ThreadIds |-> sync_thread(sw[1][t])]
    /\ UNCHANGED g_blit
    /\ UNCHANGED << script_ptr, stack_ptr, script_stack_calls,
                    goto_next_thread, thread_id, g_frame0, g_ran >>
    /\ UNCHANGED << aud_vars, other_vars >>

\* what an opcode that asks for a pc leaves alone
ReqKeeps ==
    UNCHANGED << aud_vars, load_vars, mix_vars, time_vars, call_vars,
                 video_vars, g_jmp, g_draw, sfx_module, poly >>

\* the history of pc requests after one more
Asked(h, pc) == << [pc |-> pc, over |-> h # << >> /\ h[1].pc # pc] >>

\* VirtualMachine::update_player_input, then the entry of host_frame
update_player_input ==
    /\ vm_pc = "input"
    /\ \E quit \in BOOLEAN, code \in BOOLEAN :
         IF quit
           THEN /\ vm_pc' = "quit"
                /\ UNCHANGED << requested_next_part, thread_id, g_frame0, g_ran >>
           ELSE /\ vm_pc' = "frame"
                /\ requested_next_part' =
                     IF code /\ resource.current_part_id # GAME_PART_LAST
                             /\ resource.current_part_id # GAME_PART_FIRST
                       THEN GAME_PART_LAST
                       ELSE requested_next_part
                /\ thread_id' = 0
                /\ g_frame0' = [t \in ThreadIds |->
                                  [pc |-> threads[t].pc,
                                   paused |-> threads[t].is_channel_active_current]]
                /\ g_ran' = [t \in ThreadIds |-> 0]
    /\ g_last' = [t \in DOMAIN g_last |-> << >>]
    /\ UNCHANGED g_blit
    /\ UNCHANGED << threads, script_ptr, stack_ptr, script_stack_calls,
                    goto_next_thread, resource >>
    /\ ReqKeeps

\* a faulty host_frame, which runs paused threads too (C3 rejects it)
host_frame_next_paused ==
    /\ vm_pc = "frame"
    /\ IF thread_id >= NumThreads
         THEN /\ vm_pc' = "check"
              /\ UNCHANGED << thread_id, script_ptr, stack_ptr,
                              script_stack_calls, goto_next_thread, g_ran >>
       ELSE IF threads[thread_id].pc = INACTIVE_THREAD
         THEN /\ thread_id' = thread_id + 1
              /\ UNCHANGED << vm_pc, script_ptr, stack_ptr,
                              script_stack_calls, goto_next_thread, g_ran >>
       ELSE /\ script_ptr' = resource.seg_bytecode + threads[thread_id].pc
            /\ stack_ptr' = 0
            /\ script_stack_calls' = << >>
            /\ goto_next_thread' = FALSE
            /\ vm_pc' = "exec"
            /\ g_ran' = [g_ran EXCEPT ![thread_id] = @ + 1]
            /\ UNCHANGED thread_id
    /\ g_blit' = FALSE
    /\ UNCHANGED << threads, requested_next_part, resource, g_frame0 >>
    /\ UNCHANGED << aud_vars, other_vars >>

\* VirtualMachine::host_frame: one turn of the loop over the threads, up to
\* the call of execute_thread
host_frame_next ==
    /\ vm_pc = "frame"
    /\ IF thread_id >= NumThreads
         THEN /\ vm_pc' = "check"
              /\ UNCHANGED << thread_id, script_ptr, stack_ptr,
                              script_stack_calls, goto_next_thread, g_ran >>
       ELSE IF threads[thread_id].is_channel_active_current
               \/ threads[thread_id].pc = INACTIVE_THREAD
         THEN /\ thread_id' = thread_id + 1
              /\ UNCHANGED << vm_pc, script_ptr, stack_ptr,
                              script_stack_calls, goto_next_thread, g_ran >>
       ELSE /\ script_ptr' = resource.seg_bytecode + threads[thread_id].pc
            /\ stack_ptr' = 0
            /\ script_stack_calls' = << >>
            /\ goto_next_thread' = FALSE
            /\ vm_pc' = "exec"
            /\ g_ran' = [g_ran EXCEPT ![thread_id] = @ + 1]
            /\ UNCHANGED thread_id
    /\ g_blit' = FALSE
    /\ UNCHANGED << threads, requested_next_part, resource, g_frame0 >>
    /\ UNCHANGED << aud_vars, other_vars >>

\* host_frame after execute_thread returned: save the pc, next thread
end_slice ==
    /\ vm_pc = "exec"
    /\ goto_next_thread
    /\ threads' = [threads EXCEPT ![thread_id].pc = script_ptr - resource.seg_bytecode]
    /\ thread_id' = thread_id + 1
    /\ vm_pc' = "frame"
    /\ UNCHANGED g_blit
    /\ UNCHANGED << requested_next_part, script_ptr, stack_ptr,
                    script_stack_calls, goto_next_thread, resource,
                    g_frame0, g_ran >>
    /\ UNCHANGED << aud_vars, other_vars >>

(***************************************************************************)
(* vm.rs: execute_thread.  One action per opcode; the operands are the     *)
(* bytes the cursor fetches, any value.  Variables, video pages and the    *)
(* mixer are not part of SpecVM's state: an opcode that acts only on them  *)
(* moves the cursor past its operands.                                     *)
(***************************************************************************)
ExecGuard == vm_pc = "exec" /\ ~goto_next_thread

\* the cursor after fetching n bytes (opcode byte included)
Fetch(n) ==
    /\ Off + n <= MaxRun
    /\ script_ptr' = script_ptr + n

\* the cursor after a branch to pc_offset (op_jmp)
JumpTo(pc_offset) == script_ptr' = resource.seg_bytecode + pc_offset

\* targets a script names with a 16-bit word
JumpTargets == 0 .. MaxPc

Straight(n) ==
    /\ ExecGuard
    /\ Fetch(n)
    /\ UNCHANGED << g_blit, threads, requested_next_part, stack_ptr, script_stack_calls,
                    goto_next_thread, resource, vm_pc, thread_id, g_frame0, g_ran >>
    /\ UNCHANGED << aud_vars, other_vars >>

Branch(pc_offset) ==
    /\ ExecGuard
    /\ JumpTo(pc_offset)
    /\ UNCHANGED << g_blit, threads, requested_next_part, stack_ptr, script_stack_calls,
                    goto_next_thread, resource, vm_pc, thread_id, g_frame0, g_ran >>
    /\ UNCHANGED << aud_vars, other_vars >>

Panic ==
    /\ ExecGuard
    /\ vm_pc' = "panic"
    /\ UNCHANGED << g_blit, threads, requested_next_part, script_ptr, stack_ptr,
                    script_stack_calls, goto_next_thread, resource, thread_id,
                    g_frame0, g_ran >>
    /\ UNCHANGED << aud_vars, other_vars >>

op_mov_const == Straight(4)
op_mov == Straight(3)
op_add == Straight(3)
op_add_const == Straight(4)
op_sub == Straight(3)
op_and == Straight(4)
op_or == Straight(4)
op_shl == Straight(4)
op_shr == Straight(4)
op_set_palette == Straight(3)
op_select_video_page == Straight(2)
op_fill_video_page == Straight(3)
op_copy_video_page == Straight(3)
op_draw_string == Straight(6)
op_play_sound == Straight(6)
op_play_music == Straight(6)
op_draw_poly_background == Straight(4)

\* offset word, x (1 or 2 bytes), y (1 or 2 bytes), zoom (1 byte or none)
op_draw_poly_sprite ==
    \E xe \in {0, 1}, ye \in {0, 1}, zoom \in {0, 1} :
        Straight(5 + xe + ye + zoom)

\* a BlitFrameBuffer that ends the slice (C4 rejects it)
op_blit_frame_buffer_yield ==
    /\ ExecGuard
    /\ Fetch(2)
    /\ g_blit' = TRUE
    /\ goto_next_thread' = TRUE
    /\ UNCHANGED << threads, requested_next_part, stack_ptr, script_stack_calls,
                    resource, vm_pc, thread_id, g_frame0, g_ran >>
    /\ UNCHANGED << aud_vars, other_vars >>

\* frame pacing and Video::update_display; goto_next_thread is not set
op_blit_frame_buffer ==
    /\ ExecGuard
    /\ Fetch(2)
    /\ g_blit' = TRUE
    /\ UNCHANGED << threads, requested_next_part, stack_ptr, script_stack_calls,
                    goto_next_thread, resource, vm_pc, thread_id, g_frame0, g_ran >>
    /\ UNCHANGED << aud_vars, other_vars >>

op_jmp == \E pc_offset \in JumpTargets : Branch(pc_offset)

\* the variable is decremented; the branch is taken when it is not zero
op_jnz ==
    \/ \E pc_offset \in JumpTargets : Branch(pc_offset)
    \/ Straight(4)

\* op, var, right-hand operand (1 or 2 bytes), target word
op_cond_jmp ==
    \/ \E pc_offset \in JumpTargets : Branch(pc_offset)
    \/ \E operand \in {1, 2} : Straight(5 + operand)

\* A thread is saved only at offsets up to MaxPc.
op_pause_thread ==
    /\ ExecGuard
    /\ Off + 1 <= MaxPc
    /\ script_ptr' = script_ptr + 1
    /\ goto_next_thread' = TRUE
    /\ UNCHANGED g_blit
    /\ UNCHANGED << threads, requested_next_part, stack_ptr, script_stack_calls,
                    resource, vm_pc, thread_id, g_frame0, g_ran >>
    /\ UNCHANGED << aud_vars, other_vars >>

op_kill_thread ==
    /\ ExecGuard
    /\ script_ptr' = resource.seg_bytecode + INACTIVE_THREAD
    /\ goto_next_thread' = TRUE
    /\ UNCHANGED g_blit
    /\ UNCHANGED << threads, requested_next_part, stack_ptr, script_stack_calls,
                    resource, vm_pc, thread_id, g_frame0, g_ran >>
    /\ UNCHANGED << aud_vars, other_vars >>

\* operand words a script passes to SetSetVect
VectOperands == {0, SET_INACTIVE_THREAD}

\* a faulty SetSetVect, which installs the pc at once (C1 rejects it)
op_set_set_vect_direct ==
    \E tid \in 0 .. NumThreads, pc_offset_requested \in VectOperands :
        IF tid >= NumThreads
          THEN Panic
          ELSE /\ ExecGuard
               /\ Fetch(4)
               /\ threads' = [threads EXCEPT ![tid].pc =
                                 IF pc_offset_requested = SET_INACTIVE_THREAD
                                   THEN INACTIVE_THREAD
                                   ELSE pc_offset_requested]
               /\ UNCHANGED g_blit
               /\ UNCHANGED << requested_next_part, stack_ptr, script_stack_calls,
                               goto_next_thread, resource, vm_pc, thread_id,
                               g_frame0, g_ran >>
               /\ g_last' = [t \in DOMAIN g_last |->
                               IF t = tid
                                 THEN Asked(g_last[t], pc_offset_requested)
                                 ELSE g_last[t]]
               /\ ReqKeeps

\* a faulty SetSetVect, which leaves a request that is pending alone
\* (C40 rejects it)
op_set_set_vect_first ==
    \E tid \in 0 .. NumThreads, pc_offset_requested \in VectOperands :
        IF tid >= NumThreads
          THEN Panic
          ELSE /\ ExecGuard
               /\ Fetch(4)
               /\ threads' = [threads EXCEPT ![tid].requested_pc_offset =
                                 IF @ = None THEN pc_offset_requested ELSE @]
               /\ UNCHANGED g_blit
               /\ UNCHANGED << requested_next_part, stack_ptr, script_stack_calls,
                               goto_next_thread, resource, vm_pc, thread_id,
                               g_frame0, g_ran >>
               /\ g_last' = [t \in DOMAIN g_last |->
                               IF t = tid
                                 THEN Asked(g_last[t], pc_offset_requested)
                                 ELSE g_last[t]]
               /\ ReqKeeps

\* thread_id is any byte: NumThreads stands for the bytes past the array
op_set_set_vect ==
    \E tid \in 0 .. NumThreads, pc_offset_requested \in VectOperands :
        IF tid >= NumThreads
          THEN Panic
          ELSE /\ ExecGuard
               /\ Fetch(4)
               /\ threads' = [threads EXCEPT ![tid].requested_pc_offset =
                                                 pc_offset_requested]
               /\ UNCHANGED g_blit
               /\ UNCHANGED << requested_next_part, stack_ptr, script_stack_calls,
                               goto_next_thread, resource, vm_pc, thread_id,
                               g_frame0, g_ran >>
               /\ g_last' = [t \in DOMAIN g_last |->
                               IF t = tid
                                 THEN Asked(g_last[t], pc_offset_requested)
                                 ELSE g_last[t]]
               /\ ReqKeeps

\* a loop over from .. i - 1, which leaves thread i out
reset_threads_exclusive(ths, from, i, a) ==
    [t \in DOMAIN ths |->
       IF t >= from /\ t < i
         THEN IF a \in {0, 1}
                THEN [ths[t] EXCEPT !.is_channel_active_requested = (a # 0)]
                ELSE [ths[t] EXCEPT !.requested_pc_offset = SET_INACTIVE_THREAD]
         ELSE ths[t]]

\* the threads after ResetThread(from, i, a), i already masked, i >= from
reset_threads(ths, from, i, a) ==
    LET n == i - from + 1 IN
    [t \in DOMAIN ths |->
       IF t >= from /\ t < from + n
         THEN IF a \in {0, 1}
                THEN [ths[t] EXCEPT !.is_channel_active_requested = (a # 0)]
                ELSE [ths[t] EXCEPT !.requested_pc_offset = SET_INACTIVE_THREAD]
         ELSE ths[t]]

\* op_reset_thread with the operand bytes from, to and a
reset_thread(from, to, a) ==
    LET i == BitAnd(to, NumThreads - 1) IN
    IF i < from
      THEN Straight(3)
    ELSE IF a > 2
      THEN Panic
    ELSE /\ ExecGuard
         /\ Fetch(4)
         /\ threads' = reset_threads(threads, from, i, a)
         /\ g_last' = [t \in DOMAIN g_last |->
                         IF a = 2 /\ t >= from /\ t <= i
                           THEN Asked(g_last[t], INACTIVE_THREAD)
                           ELSE g_last[t]]
         /\ UNCHANGED g_blit
         /\ UNCHANGED << requested_next_part, stack_ptr, script_stack_calls,
                         goto_next_thread, resource, vm_pc, thread_id,
                         g_frame0, g_ran >>
         /\ ReqKeeps

\* from and to are any bytes, a is any byte (3 stands for the invalid ones)
op_reset_thread ==
    \E from \in 0 .. NumThreads, to \in 0 .. 2 * NumThreads - 1, a \in 0 .. 3 :
        reset_thread(from, to, a)

\* mem-list entries of the VM specification: the entries of the parts it
\* switches between and two PolyAnim pages
PolyAnimIds == {18, 19}
MemListVM ==
    (18 :> MemEntry("PolyAnim", 0, 1, 32000, "ok")) @@
    (19 :> MemEntry("PolyAnim", 0, 0, 32000, "ok")) @@
    (23 :> MemEntry("Palette", 1, 1, 2048, "ok")) @@
    (24 :> MemEntry("Bytecode", 1, 1, 20000, "ok")) @@
    (25 :> MemEntry("PolyCinematic", 1, 2, 60000, "ok")) @@
    (125 :> MemEntry("Palette", 1, 13, 2048, "ok")) @@
    (126 :> MemEntry("Bytecode", 1, 13, 10000, "ok")) @@
    (127 :> MemEntry("PolyCinematic", 1, 13, 30000, "ok"))

\* resource ids a script passes to UpdateMemList
MemOperands == {0, GAME_PART_LAST, GAME_PART_LAST + 1} \cup PolyAnimIds

\* a faulty opcode, which keeps the first part requested in a frame
update_memlist_first(resource_id) ==
    /\ ExecGuard
    /\ Fetch(3)
    /\ IF resource_id = 0
         THEN /\ resource' = invalidate_resource(resource)
              /\ UNCHANGED << requested_next_part, vm_pc >>
       ELSE IF resource_id >= GAME_PART_FIRST
         THEN /\ requested_next_part' = IF requested_next_part = None
                                          THEN resource_id
                                          ELSE requested_next_part
              /\ UNCHANGED << resource, vm_pc >>
       ELSE LET r1 == load_memory_entry(resource, resource_id) IN
            /\ resource' = [r1 EXCEPT !.copy_vid_ptr = FALSE]
            /\ vm_pc' = IF r1.panic # "" THEN "panic" ELSE vm_pc
            /\ UNCHANGED requested_next_part
    /\ UNCHANGED g_blit
    /\ UNCHANGED << threads, stack_ptr, script_stack_calls, goto_next_thread,
                    thread_id, g_frame0, g_ran >>
    /\ UNCHANGED << aud_vars, other_vars >>

\* op_update_memlist with the operand word resource_id
update_memlist(resource_id) ==
    /\ ExecGuard
    /\ Fetch(3)
    /\ IF resource_id = 0
         THEN /\ resource' = invalidate_resource(resource)
              /\ UNCHANGED << requested_next_part, vm_pc >>
       ELSE IF resource_id >= GAME_PART_FIRST
         THEN /\ requested_next_part' = resource_id
              /\ UNCHANGED << resource, vm_pc >>
       ELSE LET r1 == load_memory_entry(resource, resource_id) IN
            /\ resource' = [r1 EXCEPT !.copy_vid_ptr = FALSE]
            /\ vm_pc' = IF r1.panic # "" THEN "panic" ELSE vm_pc
            /\ UNCHANGED requested_next_part
    /\ UNCHANGED g_blit
    /\ UNCHANGED << threads, stack_ptr, script_stack_calls, goto_next_thread,
                    thread_id, g_frame0, g_ran >>
    /\ UNCHANGED << aud_vars, other_vars >>

op_update_memlist == \E resource_id \in MemOperands : update_memlist(resource_id)

\* the opcode executed at one turn of execute_thread's loop.  Call and Ret
\* act on the cursor and the call stack alone (the stack is emptied when a
\* slice starts); SpecVM's scripts do not use them.
Opcode ==
    \/ op_mov_const \/ op_mov \/ op_add \/ op_add_const
    \/ op_pause_thread \/ op_jmp
    \/ op_set_set_vect \/ op_jnz \/ op_cond_jmp \/ op_set_palette
    \/ op_reset_thread \/ op_select_video_page \/ op_fill_video_page
    \/ op_copy_video_page \/ op_blit_frame_buffer \/ op_kill_thread
    \/ op_draw_string \/ op_sub \/ op_and \/ op_or \/ op_shl \/ op_shr
    \/ op_play_sound \/ op_update_memlist \/ op_play_music
    \/ op_draw_poly_sprite \/ op_draw_poly_background

\* the parts the game may be started with (--game-part)
StartParts == {GAME_PART_FIRST + 1}

\* VirtualMachine::new, then Engine::new's init_for_part
InitVM ==
    \E part \in StartParts :
      LET st == init_for_part([t \in ThreadIds |-> ThreadNew],
                              ResourceNew(MemListVM), part)
      IN /\ threads = st[1]
         /\ resource = st[2]
         /\ requested_next_part = None
         /\ script_ptr = 0
         /\ stack_ptr = 0
         /\ script_stack_calls = << >>
         /\ goto_next_thread = FALSE
         /\ vm_pc = "check"
         /\ thread_id = 0
         /\ g_frame0 = [t \in ThreadIds |-> [pc |-> st[1][t].pc, paused |-> FALSE]]
         /\ g_ran = [t \in ThreadIds |-> 0]
         /\ g_blit = FALSE
         /\ AudioNew
         /\ OtherNew

\* Engine::run
NextVM ==
    \/ check_thread_requests
    \/ update_player_input
    \/ host_frame_next
    \/ end_slice
    \/ Opcode

SpecVM == InitVM /\ [][NextVM]_vars

(***************************************************************************)
(* SpecLast: Engine::run with the opcodes that ask for a pc or for a       *)
(* pause, Jmp and those that end a slice; the player's input asks for a    *)
(* part.  g_last is kept for every thread.                                 *)
(***************************************************************************)
InitLast ==
    \E part \in StartParts :
      LET st == init_for_part([t \in ThreadIds |-> ThreadNew],
                              ResourceNew(MemListVM), part)
      IN /\ threads = st[1]
         /\ resource = st[2]
         /\ requested_next_part = None
         /\ script_ptr = 0
         /\ stack_ptr = 0
         /\ script_stack_calls = << >>
         /\ goto_next_thread = FALSE
         /\ vm_pc = "check"
         /\ thread_id = 0
         /\ g_frame0 = [t \in ThreadIds |-> [pc |-> st[1][t].pc, paused |-> FALSE]]
         /\ g_ran = [t \in ThreadIds |-> 0]
         /\ g_blit = FALSE
         /\ AudioNew
         /\ res_pc = [op |-> "idle", arg |-> 0, at |-> "", done |-> "", done_arg |-> 0]
         /\ to_load = {}
         /\ memory = << >>
         /\ mixer = [c \in ChannelIds |-> << >>]
         /\ out = << >>
         /\ chan_num = 0
         /\ TimeNew
         /\ diagnostic = ""
         /\ g_stack = << >>
         /\ g_left = {}
         /\ VideoNew
         /\ g_jmp = << >>
         /\ g_draw = << >>
         /\ sfx_module = SfxModuleNew(0, 1)
         /\ poly = PolyNew(<< >>, 0)
         /\ g_last = [t \in ThreadIds |-> << >>]

NextLast ==
    \/ check_thread_requests
    \/ update_player_input
    \/ host_frame_next
    \/ end_slice
    \/ op_set_set_vect
    \/ op_reset_thread
    \/ op_pause_thread
    \/ op_kill_thread
    \/ op_jmp

SpecLast == InitLast /\ [][NextLast]_vars

(***************************************************************************)
(* SpecAudio: the three threads that share the mixer.                      *)
(*   VM thread     execute_thread's receive, PlaySound, PlayMusic,         *)
(*                 UpdateMemList(0) and init_for_part (vm.rs);             *)
(*   timer thread  the closure SfxPlayer::start schedules (sfxplayer.rs);  *)
(*   audio thread  MixerAudio::callback (mixer.rs).                        *)
(* A step is what a thread does between two points where another thread   *)
(* can act: taking the RwLock, one turn of a loop under it, releasing it.  *)
(* Dropping a Guard of the timer cancels the schedule for the timer's next *)
(* look at it and does not wait for a closure that is running.             *)
(***************************************************************************)
\* marks a music module holds (note2 of a 0xFFFD note)
MarkValues == {1, 2}

\* a thread other than the VM's leaves the VM's audio state alone
VmKeeps == UNCHANGED << timer_guard, started, variable_receiver, mus_mark,
                        aud_pc, g_stopped >>
TimerKeeps == UNCHANGED << tick_pc, tick_sched, tick_ch, tick_mark >>

\* execute_thread: rx.try_recv() and the decoding of the next opcode.
\* try_recv takes the value a sender blocked on this channel offers.
\* `op` is the audio operation the opcode starts, "idle" for any other.
execute_thread_recv ==
    /\ aud_pc = "idle"
    /\ IF /\ variable_receiver # None
          /\ tick_pc = "send"
          /\ tick_sched = variable_receiver
          /\ tick_mark # None
         THEN /\ mus_mark' = tick_mark
              /\ tick_mark' = None
              /\ g_mark' = None
         ELSE UNCHANGED << mus_mark, tick_mark, g_mark >>
    /\ \E op \in {"idle", "play_channel", "stop_channel", "play_music",
                  "stop_music", "stop"} :
         /\ op = "play_music" => started < MaxStarts
         /\ aud_pc' = op
    /\ UNCHANGED << channels, mixer_lock, poisoned, timer_guard, started,
                    variable_receiver, tick_pc, tick_sched, tick_ch, cb_pc,
                    g_stopped >>
    /\ UNCHANGED << vm_vars, other_vars >>

\* self.mixer.write().expect(..): the VM thread takes the lock, or panics
\* on a poisoned one
vm_lock(at, locked) ==
    /\ aud_pc = at
    /\ mixer_lock = "free"
    /\ IF poisoned
         THEN aud_pc' = "panic" /\ UNCHANGED mixer_lock
         ELSE aud_pc' = locked /\ mixer_lock' = "vm"
    /\ UNCHANGED << channels, poisoned, timer_guard, started, variable_receiver,
                    mus_mark, cb_pc, g_stopped, g_mark >>
    /\ TimerKeeps
    /\ UNCHANGED << vm_vars, other_vars >>

\* what the VM thread does under the lock, and the release of the lock
vm_write(locked, new_channels, stopped) ==
    /\ aud_pc = locked
    /\ channels' = new_channels
    /\ mixer_lock' = "free"
    /\ aud_pc' = "idle"
    /\ g_stopped' = stopped
    /\ UNCHANGED << poisoned, timer_guard, started, variable_receiver,
                    mus_mark, cb_pc, g_mark >>
    /\ TimerKeeps
    /\ UNCHANGED << vm_vars, other_vars >>

\* VirtualMachine::play_channel (PlaySound with a volume)
play_channel_lock == vm_lock("play_channel", "play_channel_w")

play_channel ==
    \E channel \in ChannelIds :
        vm_write("play_channel_w", [channels EXCEPT ![channel] = "vm"], FALSE)

\* VirtualMachine::stop_channel (PlaySound with volume 0)
stop_channel_lock == vm_lock("stop_channel", "stop_channel_w")

stop_channel ==
    \E channel \in ChannelIds :
        vm_write("stop_channel_w", [channels EXCEPT ![channel] = "none"], g_stopped)

\* play_music_resource with a module that loads: SfxPlayer::start makes a
\* channel and a schedule, the Guard and the Receiver kept before are dropped
play_music_resource ==
    /\ aud_pc = "play_music"
    /\ started' = started + 1
    /\ timer_guard' = started + 1
    /\ variable_receiver' = started + 1
    /\ aud_pc' = "idle"
    /\ g_stopped' = FALSE
    /\ UNCHANGED << channels, mixer_lock, poisoned, mus_mark, cb_pc, g_mark >>
    /\ TimerKeeps
    /\ UNCHANGED << vm_vars, other_vars >>

\* SfxPlayer::stop: the Guard is dropped.  `next` is where the caller goes
\* on: play_music_resource(0, 0, _) is done, UpdateMemList(0) and
\* init_for_part go on to stop_all
player_stop(at, next) ==
    /\ aud_pc = at
    /\ timer_guard' = None
    /\ aud_pc' = next
    /\ UNCHANGED << channels, mixer_lock, poisoned, started, variable_receiver,
                    mus_mark, cb_pc, g_stopped, g_mark >>
    /\ TimerKeeps
    /\ UNCHANGED << vm_vars, other_vars >>

stop_music == player_stop("stop_music", "idle")

stop == player_stop("stop", "stop_all")

\* Mixer::stop_all under the lock (UpdateMemList(0), init_for_part)
stop_all_lock == vm_lock("stop_all", "stop_all_w")

stop_all ==
    vm_write("stop_all_w", [c \in ChannelIds |-> "none"], TRUE)

\* check_thread_requests with a part switch pending: init_for_part begins
\* with player.stop() and stop_all(); no receive comes before it
init_for_part_audio ==
    /\ aud_pc = "idle"
    /\ aud_pc' = "stop"
    /\ UNCHANGED << channels, mixer_lock, poisoned, timer_guard, started,
                    variable_receiver, mus_mark, cb_pc, g_stopped, g_mark >>
    /\ TimerKeeps
    /\ UNCHANGED << vm_vars, other_vars >>

\* The timer finds a schedule due whose Guard is alive and calls its
\* closure: handle_events takes the write lock of the module (no one else
\* takes it) and goes for the lock of the mixer.
timer_tick ==
    /\ tick_pc = "idle"
    /\ timer_guard # None
    /\ tick_pc' = "lock"
    /\ tick_sched' = timer_guard
    /\ UNCHANGED << channels, mixer_lock, poisoned, tick_ch, tick_mark, cb_pc,
                    g_mark >>
    /\ VmKeeps
    /\ UNCHANGED << vm_vars, other_vars >>

\* handle_events: mixer.0.write().expect(..)
handle_events_lock ==
    /\ tick_pc = "lock"
    /\ mixer_lock = "free"
    /\ IF poisoned
         THEN tick_pc' = "dead" /\ UNCHANGED mixer_lock
         ELSE tick_pc' = "chan" /\ mixer_lock' = "timer"
    /\ UNCHANGED << channels, poisoned, tick_sched, tick_ch, tick_mark, cb_pc,
                    g_mark >>
    /\ VmKeeps
    /\ UNCHANGED << vm_vars, other_vars >>

\* what handle_pattern may return for a channel; "BadNote" is a Pattern
\* whose note1 fails the asserts
PatternResults == {"None", "StopChannel", "Pattern", "BadNote"}

\* a faulty handle_events, which leaves the lock after each channel
handle_events_channel_unlock ==
    /\ tick_pc = "chan"
    /\ tick_ch < NUM_CHANNELS
    /\ \E result \in PatternResults \ {"BadNote"} :
         channels' = [channels EXCEPT ![tick_ch] =
                        IF result = "StopChannel" THEN "none"
                        ELSE IF result = "Pattern" THEN "sfx"
                        ELSE @]
    /\ tick_ch' = tick_ch + 1
    /\ tick_pc' = IF tick_ch + 1 < NUM_CHANNELS THEN "lock" ELSE "chan"
    /\ mixer_lock' = IF tick_ch + 1 < NUM_CHANNELS THEN "free" ELSE "timer"
    /\ UNCHANGED << poisoned, tick_sched, tick_mark, cb_pc, g_mark >>
    /\ VmKeeps
    /\ UNCHANGED << vm_vars, other_vars >>

\* handle_events: one turn of `for ch in 0..4`, under the lock.  A failed
\* assert unwinds the timer thread: the lock is released poisoned.
handle_events_channel ==
    /\ tick_pc = "chan"
    /\ tick_ch < NUM_CHANNELS
    /\ \/ \E result \in PatternResults :
            /\ channels' = [channels EXCEPT ![tick_ch] =
                              IF result = "StopChannel" THEN "none"
                              ELSE IF result = "Pattern" THEN "sfx"
                              ELSE @]
            /\ IF result = "BadNote"
                 THEN /\ tick_pc' = "dead"
                      /\ mixer_lock' = "free"
                      /\ poisoned' = TRUE
                      /\ tick_ch' = 0
                 ELSE /\ tick_ch' = tick_ch + 1
                      /\ UNCHANGED << tick_pc, mixer_lock, poisoned >>
            /\ UNCHANGED tick_mark
       \/ \E var \in MarkValues :
            /\ tick_mark' = var
            /\ tick_ch' = tick_ch + 1
            /\ UNCHANGED << channels, tick_pc, mixer_lock, poisoned >>
    /\ UNCHANGED << tick_sched, cb_pc, g_mark >>
    /\ VmKeeps
    /\ UNCHANGED << vm_vars, other_vars >>

\* handle_events returns, both locks are released; the closure sends the
\* mark if there is one.  The channel has no buffer: send offers the value
\* and waits for the receiver.
handle_events_return ==
    /\ tick_pc = "chan"
    /\ tick_ch = NUM_CHANNELS
    /\ mixer_lock' = "free"
    /\ tick_ch' = 0
    /\ IF tick_mark # None
         THEN /\ tick_pc' = "send"
              /\ g_mark' = IF variable_receiver = tick_sched
                             THEN tick_mark ELSE g_mark
         ELSE /\ tick_pc' = "idle"
              /\ UNCHANGED g_mark
    /\ UNCHANGED << channels, poisoned, tick_sched, tick_mark, cb_pc >>
    /\ VmKeeps
    /\ UNCHANGED << vm_vars, other_vars >>

\* tx.send(variable).unwrap() returns once the value is taken; it panics
\* when the Receiver is gone
send_return ==
    /\ tick_pc = "send"
    /\ \/ /\ tick_mark = None
          /\ tick_pc' = "idle"
          /\ UNCHANGED tick_mark
       \/ /\ tick_mark # None
          /\ variable_receiver # tick_sched
          /\ tick_pc' = "dead"
          /\ tick_mark' = None
    /\ UNCHANGED << channels, mixer_lock, poisoned, tick_sched, tick_ch, cb_pc,
                    g_mark >>
    /\ VmKeeps
    /\ UNCHANGED << vm_vars, other_vars >>

\* MixerAudio::callback: self.0.write(); on a poisoned lock it sleeps and
\* tries again, which changes nothing
callback_lock ==
    /\ cb_pc = "idle"
    /\ mixer_lock = "free"
    /\ ~poisoned
    /\ cb_pc' = "mixing"
    /\ mixer_lock' = "audio"
    /\ UNCHANGED << channels, poisoned, g_mark >>
    /\ VmKeeps
    /\ TimerKeeps
    /\ UNCHANGED << vm_vars, other_vars >>

\* MixerAudio::callback: the mixing loop; the channels whose sample has
\* ended (ended) are emptied; the lock is released on return
callback ==
    /\ cb_pc = "mixing"
    /\ \E ended \in SUBSET ChannelIds :
         channels' = [c \in ChannelIds |->
                        IF c \in ended THEN "none" ELSE channels[c]]
    /\ cb_pc' = "idle"
    /\ mixer_lock' = "free"
    /\ UNCHANGED << poisoned, g_mark >>
    /\ VmKeeps
    /\ TimerKeeps
    /\ UNCHANGED << vm_vars, other_vars >>

\* Engine::new has run: the VM side as constructed, nothing playing
InitAudio == InitVM

NextAudio ==
    \/ execute_thread_recv
    \/ play_channel_lock \/ play_channel
    \/ stop_channel_lock \/ stop_channel
    \/ play_music_resource
    \/ stop_music
    \/ stop \/ stop_all_lock \/ stop_all
    \/ init_for_part_audio
    \/ timer_tick
    \/ handle_events_lock
    \/ handle_events_channel
    \/ handle_events_return
    \/ send_return
    \/ callback_lock
    \/ callback

SpecAudio == InitAudio /\ [][NextAudio]_vars

(***************************************************************************)
(* SpecRes: the resource manager alone.  Its callers (init_for_part and    *)
(* UpdateMemList in vm.rs) call setup_part, load_memory_entry and          *)
(* invalidate_resource in any order.                                       *)
(* The mem list is what read_entries may read: sizes and buf_ptr are 16    *)
(* bit words, the state byte is taken as it is in the file.                *)
(***************************************************************************)
\* the largest size and buf_ptr read_entries reads (read_u16)
MaxWord == 65535

\* sound entries of the largest size, at ids 1 .. NumSounds
SoundIds == 1 .. NumSounds

\* an entry the file gives as already Loaded
FileLoaded(entry, buf_ptr) ==
    [entry EXCEPT !.state = "Loaded", !.buf_ptr = buf_ptr]

\* A memlist.bin: parts 16002 and 16003 with entries of the largest size, the
\* sounds, an entry (8) that fills to the byte the room a part and four
\* sounds leave, a PolyAnim entry longer than the video region, an entry of
\* bank 0 and one whose bank cannot be read.  last_bank_id is the bank id of
\* the last sound and part_bank what reading the bank of part 16003 yields.
MemListRes(last_bank_id, part_bank) ==
    [i \in SoundIds |->
        IF i = 1 THEN FileLoaded(MemEntry("Sound", 0, 1, MaxWord, "ok"), MaxWord)
        ELSE IF i = NumSounds THEN MemEntry("Sound", 0, last_bank_id, MaxWord, "ok")
        ELSE MemEntry("Sound", 0, 1, MaxWord, "ok")] @@
    (8 :> MemEntry("Music", 0, 2, 57352, "ok")) @@
    (10 :> MemEntry("Sound", 0, 0, 100, "ok")) @@
    (11 :> MemEntry("Sound", 0, 3, 100, "io")) @@
    (17 :> MemEntry("PolyCinematic", 0, 4, MaxWord, "ok")) @@
    (18 :> MemEntry("PolyAnim", 0, 4, 32000, "ok")) @@
    (19 :> MemEntry("PolyAnim", 0, 4, MaxWord, "ok")) @@
    (26 :> MemEntry("Palette", 0, 6, MaxWord, "ok")) @@
    (27 :> MemEntry("Bytecode", 0, 6, MaxWord, "ok")) @@
    (28 :> MemEntry("PolyCinematic", 0, 6, MaxWord, "ok")) @@
    (29 :> MemEntry("Palette", 0, 7, MaxWord, part_bank)) @@
    (30 :> MemEntry("Bytecode", 0, 7, MaxWord, part_bank)) @@
    (31 :> MemEntry("PolyCinematic", 0, 7, MaxWord, part_bank))

\* the files: one whose sounds all load and whose bank of part 16003 cannot
\* be read, and one with both parts and a last sound of bank 0
MemLists == {MemListRes(1, "io"), MemListRes(0, "ok")}

\* part ids a caller passes: two parts and an id past the last part
ResParts == {GAME_PART_FIRST + 2, GAME_PART_FIRST + 3, GAME_PART_LAST + 1}

ResKeeps ==
    UNCHANGED << threads, requested_next_part, script_ptr, stack_ptr,
                 script_stack_calls, goto_next_thread, vm_pc, thread_id,
                 g_frame0, g_ran, g_blit, aud_vars, other_vars >>

\* init_for_part: setup_part, then the PolyAnim page is taken
call_setup_part ==
    /\ resource.panic = ""
    /\ \E part_id \in ResParts :
         resource' = [setup_part(resource, part_id) EXCEPT !.copy_vid_ptr = FALSE]
    /\ ResKeeps

\* resource ids a script passes to UpdateMemList: the entries of a part are
\* loaded by setup_part
LoadIds == SoundIds \cup {8, 10, 11, 18, 19}

\* UpdateMemList(resource_id): load_memory_entry, then the PolyAnim page is
\* taken.  Scripts run once Engine::new has set a part up.
call_load_memory_entry ==
    /\ resource.panic = ""
    /\ resource.current_part_id # 0
    /\ \E resource_id \in LoadIds :
         resource' = [load_memory_entry(resource, resource_id)
                        EXCEPT !.copy_vid_ptr = FALSE]
    /\ ResKeeps

\* UpdateMemList(0)
call_invalidate_resource ==
    /\ resource.panic = ""
    /\ resource.current_part_id # 0
    /\ resource' = invalidate_resource(resource)
    /\ ResKeeps

\* Resource::new and read_memlist
InitRes ==
    /\ \E mem_list \in MemLists : resource = ResourceNew(mem_list)
    /\ threads = [t \in ThreadIds |-> ThreadNew]
    /\ requested_next_part = None
    /\ script_ptr = 0
    /\ stack_ptr = 0
    /\ script_stack_calls = << >>
    /\ goto_next_thread = FALSE
    /\ vm_pc = "check"
    /\ thread_id = 0
    /\ g_frame0 = [t \in ThreadIds |-> [pc |-> INACTIVE_THREAD, paused |-> FALSE]]
    /\ g_ran = [t \in ThreadIds |-> 0]
    /\ g_blit = FALSE
    /\ AudioNew
    /\ OtherNew

NextRes ==
    \/ call_setup_part
    \/ call_load_memory_entry
    \/ call_invalidate_resource

SpecRes == InitRes /\ [][NextRes]_vars

(***************************************************************************)
(* SpecLoad: the calls of the Resource step by step.  A call of            *)
(* setup_part is invalidate_all, the marking of the part's entries, one    *)
(* turn of the loop of load_marked_as_needed per entry of to_load, and the *)
(* return; load_memory_entry is the marking, the turns of the loop and the *)
(* return.  The first call may be any of the three: bin/resource.rs calls  *)
(* load_memory_entry and invalidate_resource on the mem list as read, so   *)
(* the states of the file (LoadMe, Loaded) are what the first pass finds.  *)
(***************************************************************************)
\* Unpacker::unpack: the crc register when the output has been emitted.
\* The register starts as the word before the size word and is xor-ed
\* with every word read after it; words are WordBits wide in the model.
WordBits == 2

RECURSIVE BitXor(_, _, _)
BitXor(a, b, bits) ==
    IF bits = 0 THEN 0
    ELSE ((a + b) % 2) + 2 * BitXor(a \div 2, b \div 2, bits - 1)

RECURSIVE XorAll(_)
XorAll(words) ==
    IF words = << >> THEN 0
    ELSE BitXor(Head(words), XorAll(Tail(words)), WordBits)

\* packed data: << chk words ..., crc word, datasize word >>, read from the
\* end; the size word is not part of the sum
unpack_crc(data) == XorAll(SubSeq(data, 1, Len(data) - 1))

\* what Bank::data yields for a compressed bank
BankData(data) == IF unpack_crc(data) = 0 THEN "ok" ELSE "crc"

\* a compressed bank whose words sum to zero, and the same bank with a bit
\* of its crc word flipped
PackedBanks == { << 1, 2, 3, 1 >>, << 1, 2, 2, 1 >> }

\* entries of the largest size the file may give as LoadMe: they fill the
\* arena but for 57352 bytes
NumFill == 8
FillIds == 1 .. NumFill
\* the entries that follow them in the mem list
BigId == NumFill + 1
MusicId == NumFill + 2
SmallId == NumFill + 3
AnimId == NumFill + 4
UnknownId == NumFill + 5

FileStates == {"NotNeeded", "Loaded", "LoadMe"}

\* rank_num of the entry at index i, for the three ways a file may rank
\* its entries
RankKinds == {"flat", "up", "down"}
RankOf(kind, i) ==
    IF kind = "up" THEN i
    ELSE IF kind = "down" THEN 255 - i
    ELSE 0

\* an entry as read_entries reads it
FileEntry(entry_type, state, rank_num, size, bank) ==
    [MemEntry(entry_type, rank_num, 1, size, bank) EXCEPT !.state = state]

\* A mem list: the fill entries in state fill, an entry of the largest
\* size in state big, a Music entry that fits to the byte after the fill
\* entries, a small sound, a PolyAnim and an Unknown entry in state other,
\* and the entries of parts 16002 and 16005 (which has no video2).  The
\* Music entry and the bytecode of part 16002 are compressed banks.
MemListLoad(kind, fill, big, other, music_data, code_data) ==
    [i \in FillIds |-> FileEntry("Sound", fill, RankOf(kind, i), MaxWord, "ok")] @@
    (BigId :> FileEntry("Sound", big, RankOf(kind, BigId), MaxWord, "ok")) @@
    (MusicId :> FileEntry("Music", other, RankOf(kind, MusicId), 57352,
                          BankData(music_data))) @@
    (SmallId :> FileEntry("Sound", other, RankOf(kind, SmallId), 100, "ok")) @@
    (AnimId :> FileEntry("PolyAnim", other, RankOf(kind, AnimId), 32000, "ok")) @@
    (UnknownId :> FileEntry("Unknown", other, RankOf(kind, UnknownId), 100, "ok")) @@
    (17 :> FileEntry("PolyCinematic", "NotNeeded", RankOf(kind, 17), 20000, "ok")) @@
    (26 :> FileEntry("Palette", "NotNeeded", RankOf(kind, 26), 2048, "ok")) @@
    (27 :> FileEntry("Bytecode", "NotNeeded", RankOf(kind, 27), 30000,
                     BankData(code_data))) @@
    (28 :> FileEntry("PolyCinematic", "NotNeeded", RankOf(kind, 28), MaxWord, "ok")) @@
    (35 :> FileEntry("Palette", "NotNeeded", RankOf(kind, 35), 2048, "ok")) @@
    (36 :> FileEntry("Bytecode", "NotNeeded", RankOf(kind, 36), 30000, "ok")) @@
    (37 :> FileEntry("PolyCinematic", "NotNeeded", RankOf(kind, 37), MaxWord, "ok"))

\* resource_id of load_memory_entry
LoadIdsL == {BigId, MusicId, SmallId, AnimId}

\* part_id of setup_part: parts 16002 and 16005 and an id past the last part
LoadParts == {GAME_PART_FIRST + 2, GAME_PART_FIRST + 5, GAME_PART_LAST + 1}

\* res_pc: the call in progress (op, arg, at) and the call that returned
\* last (done, done_arg)
ResIdle(done, done_arg) ==
    [op |-> "idle", arg |-> 0, at |-> "", done |-> done, done_arg |-> done_arg]

ResIn(op, arg, at) ==
    [op |-> op, arg |-> arg, at |-> at, done |-> "", done_arg |-> 0]

LoadKeeps ==
    UNCHANGED << threads, requested_next_part, script_ptr, stack_ptr,
                 script_stack_calls, goto_next_thread, vm_pc, thread_id,
                 g_frame0, g_ran, g_blit, aud_vars, mix_vars, time_vars, more_vars >>

\* what a step of the VM around a call of the Resource keeps
LoadKeepsVM ==
    UNCHANGED << threads, requested_next_part, script_ptr, stack_ptr,
                 script_stack_calls, goto_next_thread, vm_pc, thread_id,
                 g_frame0, g_ran, g_blit, aud_vars, mix_vars, time_vars,
                 call_vars, jmp_vars, palette_requested, cur_page_ptr1,
                 cur_page_ptr2, cur_page_ptr3, g_host >>

\* the flag is left set
copy_vid_keep(r) == r

\* self.resource.copy_vid_ptr = false (init_for_part, op_update_memlist)
copy_vid_clear(r) == [r EXCEPT !.copy_vid_ptr = FALSE]

\* Resource::video_page_data: the page decoded from the bytes at
\* vid_cur_ptr, which are the data of the entry copied there last; every
\* row of the page is written as that entry's id
video_page_data(r, mem) ==
    LET at_vid == {k \in 1 .. Len(mem) : mem[k][1] = r.vid_cur_ptr}
        last == CHOOSE k \in at_vid : \A j \in at_vid : j <= k
    IN [y \in 1 .. VideoHeight |-> mem[last][2]]

\* if self.resource.copy_vid_ptr { self.video.copy_page_buffer(..) }
copy_page_buffer(r, mem, pgs) ==
    IF r.copy_vid_ptr
      THEN [pgs EXCEPT ![0] = video_page_data(r, mem)]
      ELSE pgs

\* the entries of a part (setup_part)
PartEntries(part_id) ==
    LET p == PARTS[part_id - GAME_PART_FIRST + 1]
    IN {p.palette, p.code, p.video1} \cup
       (IF p.video2 # None THEN {p.video2} ELSE {})

\* a faulty to_load, which holds the first LoadMe entry only
LoadMeEntries_first(r) ==
    LET S == {i \in DOMAIN r.mem_list : r.mem_list[i].state = "LoadMe"}
    IN {i \in S : \A j \in S : i <= j}

\* the LoadMe entries (load_marked_as_needed: to_load)
LoadMeEntries(r) == {i \in DOMAIN r.mem_list : r.mem_list[i].state = "LoadMe"}

\* setup_part is called: the early return, the panic on an unknown part,
\* or invalidate_all
setup_part_call ==
    /\ res_pc.op = "idle"
    /\ \E part_id \in LoadParts :
         IF part_id = resource.current_part_id
           THEN /\ res_pc' = ResIdle("setup_part", part_id)
                /\ UNCHANGED resource
         ELSE IF part_id < GAME_PART_FIRST \/ part_id > GAME_PART_LAST
           THEN /\ res_pc' = ResIn("panic", part_id, "")
                /\ resource' = [resource EXCEPT !.panic = "Unknown part"]
         ELSE /\ res_pc' = ResIn("setup_part", part_id, "mark")
              /\ resource' = invalidate_all(resource)
    /\ memory' = << >>
    /\ UNCHANGED to_load
    /\ LoadKeeps

\* setup_part: the entries of the part are set to LoadMe;
\* load_marked_as_needed collects to_load
setup_part_mark ==
    /\ res_pc.op = "setup_part"
    /\ res_pc.at = "mark"
    /\ LET r == [resource EXCEPT !.mem_list =
                   [i \in DOMAIN resource.mem_list |->
                      IF i \in PartEntries(res_pc.arg)
                        THEN [resource.mem_list[i] EXCEPT !.state = "LoadMe"]
                        ELSE resource.mem_list[i]]]
       IN /\ resource' = r
          /\ to_load' = LoadMeEntries(r)
    /\ res_pc' = ResIn("setup_part", res_pc.arg, "load")
    /\ UNCHANGED memory
    /\ LoadKeeps

\* a faulty load_memory_entry, which also marks an entry that is Loaded
load_memory_entry_call_again ==
    /\ res_pc.op = "idle"
    /\ \E resource_id \in LoadIdsL :
         IF resource.mem_list[resource_id].state # "LoadMe"
           THEN LET r == [resource EXCEPT !.mem_list[resource_id].state = "LoadMe"]
                IN /\ resource' = r
                   /\ to_load' = LoadMeEntries(r)
                   /\ res_pc' = ResIn("load_memory_entry", resource_id, "load")
           ELSE /\ res_pc' = ResIdle("load_memory_entry", resource_id)
                /\ UNCHANGED << resource, to_load >>
    /\ memory' = << >>
    /\ LoadKeeps

\* load_memory_entry is called: a NotNeeded entry is set to LoadMe and
\* load_marked_as_needed collects to_load; for any other entry it returns
load_memory_entry_call ==
    /\ res_pc.op = "idle"
    /\ \E resource_id \in LoadIdsL :
         IF resource.mem_list[resource_id].state = "NotNeeded"
           THEN LET r == [resource EXCEPT !.mem_list[resource_id].state = "LoadMe"]
                IN /\ resource' = r
                   /\ to_load' = LoadMeEntries(r)
                   /\ res_pc' = ResIn("load_memory_entry", resource_id, "load")
           ELSE /\ res_pc' = ResIdle("load_memory_entry", resource_id)
                /\ UNCHANGED << resource, to_load >>
    /\ memory' = << >>
    /\ LoadKeeps

\* a faulty copy, made before Bank::data has checked the bank
copy_from_slice_early(r, i) ==
    LET entry == r.mem_list[i] IN
    IF entry.entry_type = "PolyAnim"
      THEN IF entry.bank_id # 0 /\ entry.bank # "io"
              /\ r.vid_cur_ptr + entry.size <= MEM_BLOCK_SIZE
             THEN << << r.vid_cur_ptr, i >> >> ELSE << >>
      ELSE IF entry.size <= r.vid_bak_ptr - r.script_cur_ptr
              /\ entry.bank_id # 0 /\ entry.bank # "io"
             THEN << << r.script_cur_ptr, i >> >> ELSE << >>

\* dst.copy_from_slice(&data) of the loop body for entry i: the copy it
\* makes, as << load_destination, i >>, or none when the body leaves
\* (continue, panic) before it
copy_from_slice(r, i) ==
    LET entry == r.mem_list[i] IN
    IF entry.entry_type = "PolyAnim"
      THEN IF entry.bank_id # 0 /\ entry.bank = "ok"
              /\ r.vid_cur_ptr + entry.size <= MEM_BLOCK_SIZE
             THEN << << r.vid_cur_ptr, i >> >> ELSE << >>
      ELSE IF entry.size <= r.vid_bak_ptr - r.script_cur_ptr
              /\ entry.bank_id # 0 /\ entry.bank = "ok"
             THEN << << r.script_cur_ptr, i >> >> ELSE << >>

\* the first entry of to_load not yet visited (mem-list order)
next_to_load(S) == MinOf(S)

\* the entry of the turn does not fit: entry.size > vid_bak_ptr - script_cur_ptr
Refused(r, i) ==
    /\ r.mem_list[i].entry_type # "PolyAnim"
    /\ r.mem_list[i].size > r.vid_bak_ptr - r.script_cur_ptr

\* a faulty loop, which leaves at the first entry that does not fit
load_turn_break ==
    /\ res_pc.at = "load"
    /\ to_load # {}
    /\ LET i == next_to_load(to_load)
           r == load_entry(resource, i)
       IN /\ resource' = r
          /\ memory' = memory \o copy_from_slice(resource, i)
          /\ to_load' = IF Refused(resource, i) THEN {} ELSE to_load \ {i}
          /\ res_pc' = IF r.panic # "" THEN ResIn("panic", i, "") ELSE res_pc
    /\ LoadKeeps

\* load_marked_as_needed: one turn of `for entry in to_load`
load_turn ==
    /\ res_pc.at = "load"
    /\ to_load # {}
    /\ LET i == next_to_load(to_load)
           r == load_entry(resource, i)
       IN /\ resource' = r
          /\ memory' = memory \o copy_from_slice(resource, i)
          /\ to_load' = to_load \ {i}
          /\ res_pc' = IF r.panic # "" THEN ResIn("panic", i, "") ELSE res_pc
    /\ LoadKeeps

\* a faulty return of setup_part, which does not save script_bak_ptr
load_return_no_bak ==
    /\ res_pc.at = "load"
    /\ to_load = {}
    /\ IF res_pc.op = "setup_part"
         THEN LET p == PARTS[res_pc.arg - GAME_PART_FIRST + 1]
              IN resource' = copy_vid_clear(
                   [resource EXCEPT
                      !.seg_palettes = resource.mem_list[p.palette].buf_ptr,
                      !.seg_bytecode = resource.mem_list[p.code].buf_ptr,
                      !.seg_cinematic = resource.mem_list[p.video1].buf_ptr,
                      !.seg_video2 = IF p.video2 # None
                                       THEN resource.mem_list[p.video2].buf_ptr
                                       ELSE resource.seg_video2,
                      !.current_part_id = res_pc.arg])
         ELSE resource' = copy_vid_clear(resource)
    /\ pages' = copy_page_buffer(resource, memory, pages)
    /\ res_pc' = ResIdle(res_pc.op, res_pc.arg)
    /\ UNCHANGED << to_load, memory >>
    /\ LoadKeepsVM

\* load_marked_as_needed is done; setup_part records the segments, the
\* part and script_bak_ptr; the call returns to init_for_part or to
\* op_update_memlist, which tests copy_vid_ptr
load_return ==
    /\ res_pc.at = "load"
    /\ to_load = {}
    /\ IF res_pc.op = "setup_part"
         THEN LET p == PARTS[res_pc.arg - GAME_PART_FIRST + 1]
              IN resource' = copy_vid_clear(
                   [resource EXCEPT
                      !.seg_palettes = resource.mem_list[p.palette].buf_ptr,
                      !.seg_bytecode = resource.mem_list[p.code].buf_ptr,
                      !.seg_cinematic = resource.mem_list[p.video1].buf_ptr,
                      !.seg_video2 = IF p.video2 # None
                                       THEN resource.mem_list[p.video2].buf_ptr
                                       ELSE resource.seg_video2,
                      !.current_part_id = res_pc.arg,
                      !.script_bak_ptr = resource.script_cur_ptr])
         ELSE resource' = copy_vid_clear(resource)
    /\ pages' = copy_page_buffer(resource, memory, pages)
    /\ res_pc' = ResIdle(res_pc.op, res_pc.arg)
    /\ UNCHANGED << to_load, memory >>
    /\ LoadKeepsVM

\* invalidate_resource is called and returns
invalidate_resource_call ==
    /\ res_pc.op = "idle"
    /\ resource' = invalidate_resource(resource)
    /\ res_pc' = ResIdle("invalidate_resource", 0)
    /\ memory' = << >>
    /\ UNCHANGED to_load
    /\ LoadKeeps

\* Resource::new and read_memlist on a file
InitLoad ==
    /\ \E kind \in RankKinds, fill \in {"NotNeeded", "LoadMe"},
          big \in FileStates, other \in FileStates,
          music_data \in PackedBanks, code_data \in PackedBanks :
         resource = ResourceNew(MemListLoad(kind, fill, big, other,
                                            music_data, code_data))
    /\ threads = [t \in ThreadIds |-> ThreadNew]
    /\ requested_next_part = None
    /\ script_ptr = 0
    /\ stack_ptr = 0
    /\ script_stack_calls = << >>
    /\ goto_next_thread = FALSE
    /\ vm_pc = "check"
    /\ thread_id = 0
    /\ g_frame0 = [t \in ThreadIds |-> [pc |-> INACTIVE_THREAD, paused |-> FALSE]]
    /\ g_ran = [t \in ThreadIds |-> 0]
    /\ g_blit = FALSE
    /\ AudioNew
    /\ res_pc = ResIdle("", 0)
    /\ to_load = {}
    /\ memory = << >>
    /\ mixer = [c \in ChannelIds |-> << >>]
    /\ out = << >>
    /\ chan_num = 0
    /\ TimeNew
    /\ MoreNew

NextLoad ==
    \/ setup_part_call
    \/ setup_part_mark
    \/ load_memory_entry_call
    \/ load_turn
    \/ load_return
    \/ invalidate_resource_call

SpecLoad == InitLoad /\ [][NextLoad]_vars

(***************************************************************************)
(* SpecMix: the channels of the Mixer with their chunks, volumes and       *)
(* positions.  The VM plays and stops sounds (play_sound_resource), the    *)
(* timer thread runs handle_events one pattern at a time under the write   *)
(* lock, and the audio thread runs the callback one channel at a time      *)
(* under the write lock.  A panic of a thread that holds the lock poisons  *)
(* it: the callback then never locks again, and the expect of the other    *)
(* threads panics.                                                         *)
(***************************************************************************)
\* samples of the buffer of one callback
OutLen == 2

SOUND_SAMPLE_RATE == 22050

FREQUENCE_TABLE ==
    << 3327, 3523, 3729, 3951, 4182, 4430, 4697, 4972, 5279, 5593, 5926, 6280,
       6653, 7046, 7457, 7902, 8363, 8860, 9395, 9943, 10559, 11186, 11852, 12560,
       13307, 14093, 14915, 15839, 16727, 17720, 18840, 19886, 21056, 22372, 23706, 25032,
       26515, 28185, 29829, 31677 >>

\* `as i8` of an integer
AsI8(x) == ((x + 128) % 256) - 128

\* `/` of Rust on signed integers, which rounds toward zero
TruncDiv(a, b) == IF a >= 0 THEN a \div b ELSE -((-a) \div b)

\* a faulty add_clamp, which gives the sum as it is
add_unclamped(a, b) == a + b

\* add_clamp
add_clamp(a, b) ==
    LET sum == a + b
    IN AsI8(IF sum < -128 THEN -128 ELSE IF sum > 127 THEN 127 ELSE sum)

\* MixerChunk::new
MixerChunkNew(data, len, loop_len) ==
    [data |-> data, len |-> len, loop_len |-> loop_len,
     loop_pos |-> IF loop_len > 0 THEN len ELSE 0]

\* MixerChannel::new
MixerChannelNew(volume, chunk, frequency) ==
    [volume |-> volume, chunk |-> chunk, chunk_pos |-> 0,
     chunk_inc |-> (frequency * 256) \div SOUND_SAMPLE_RATE]

\* The sounds in the arena, by resource id: the two words of the header
\* (len and loop_len, in words) and the sample bytes after the header; the
\* entry of id 3 is not Loaded.
SoundEntries ==
    (1 :> [len |-> 1, loop_len |-> 0, data |-> << 128, 128 >>]) @@
    (2 :> [len |-> 1, loop_len |-> 1, data |-> << 127, 127, 127, 127 >>])

ResourceIds == 1 .. 3

\* Resource::get_entry_mixer_chunk: << >> is None, << chunk >> is Some(chunk)
get_entry_mixer_chunk(resource_id) ==
    IF resource_id \notin DOMAIN SoundEntries THEN << >>
    ELSE LET e == SoundEntries[resource_id]
             len == e.len * 2
             loop_len == e.loop_len * 2
         IN << MixerChunkNew(SubSeq(e.data, 1, len + loop_len), len, loop_len) >>

\* operands of PlaySound: freq (40 is past the table), vol, channel
FreqOperands == {33, 39, 40}
VolOperands == {0, 255}
ChannelOperands == 0 .. NUM_CHANNELS

MixKeeps ==
    UNCHANGED << threads, requested_next_part, script_ptr, stack_ptr,
                 script_stack_calls, goto_next_thread, resource, thread_id,
                 g_frame0, g_ran, g_blit, channels, timer_guard, started,
                 variable_receiver, mus_mark, aud_pc, tick_sched, tick_mark,
                 g_stopped, g_mark, load_vars, time_vars,
                 more_vars >>

\* Mixer::stop_channel
stop_channel_mixer(m, channel) == [m EXCEPT ![channel] = << >>]

\* Mixer::play_channel
play_channel_mixer(m, channel, mixer_chunk, frequency, volume) ==
    [m EXCEPT ![channel] = << MixerChannelNew(volume, mixer_chunk, frequency) >>]

Min(a, b) == IF a < b THEN a ELSE b

\* VirtualMachine::play_sound_resource, with the stop_channel or
\* play_channel it calls.  The write lock is taken and released within.
play_sound_resource(resource_id, freq, vol, channel) ==
    /\ vm_pc # "panic"
    /\ mixer_lock = "free"
    /\ IF vol = 0
         THEN IF poisoned
                THEN /\ vm_pc' = "panic"
                     /\ UNCHANGED << mixer, poisoned >>
              ELSE IF channel \notin ChannelIds
                THEN /\ vm_pc' = "panic"
                     /\ poisoned' = TRUE
                     /\ UNCHANGED << mixer >>
              ELSE /\ mixer' = stop_channel_mixer(mixer, channel)
                   /\ UNCHANGED << vm_pc, poisoned >>
       ELSE IF get_entry_mixer_chunk(resource_id) = << >>
         THEN UNCHANGED << mixer, vm_pc, poisoned >>
       ELSE IF freq + 1 \notin DOMAIN FREQUENCE_TABLE \/ poisoned
         THEN /\ vm_pc' = "panic"
              /\ UNCHANGED << mixer, poisoned >>
       ELSE /\ mixer' = play_channel_mixer(mixer, BitAnd(BitAnd(channel, 3), 3),
                                           get_entry_mixer_chunk(resource_id)[1],
                                           FREQUENCE_TABLE[freq + 1],
                                           Min(Min(vol, 63), 63))
            /\ UNCHANGED << vm_pc, poisoned >>
    /\ UNCHANGED << mixer_lock, tick_pc, tick_ch, cb_pc, out, chan_num >>
    /\ MixKeeps

\* SfxPattern::from_notes: the values of sample_volume it may give for an
\* instrument of volume sample_volume and the word note2; None is the panic
\* of a build that checks `m += volume` for overflow, which other builds wrap
from_notes(note2, sample_volume) ==
    LET effect == (note2 \div 256) % 16
        volume == note2 % 256
    IN IF effect = 5
         THEN IF sample_volume + volume > MaxWord
                THEN { None, Min((sample_volume + volume) % (MaxWord + 1), 63) }
                ELSE { Min(sample_volume + volume, 63) }
       ELSE IF effect = 6
         THEN { IF sample_volume < volume THEN 0 ELSE sample_volume - volume }
       ELSE { sample_volume }

\* Resource::prepare_instrument: the bytes of the sound after its header,
\* the first four of them zeroed, with the volume word
prepare_instrument(resource_id, volume) ==
    LET e == SoundEntries[resource_id]
    IN [len |-> e.len, loop_len |-> e.loop_len,
        data |-> [k \in DOMAIN e.data |-> IF k <= 4 THEN 0 ELSE e.data[k]],
        volume |-> volume]

\* the instruments of the module
Instruments == { prepare_instrument(1, 63), prepare_instrument(1, MaxWord) }

\* note2 of a pattern: no effect, volume up and volume down by 0xC0
Note2s == { 192, 5 * 256 + 192, 6 * 256 + 192 }

\* note1 of a pattern that plays
Note1 == 160

\* the timer thread: handle_events takes the locks
sfx_lock ==
    /\ tick_pc = "idle"
    /\ mixer_lock = "free"
    /\ IF poisoned
         THEN /\ tick_pc' = "dead"
              /\ UNCHANGED << mixer_lock, tick_ch >>
         ELSE /\ tick_pc' = "chan"
              /\ mixer_lock' = "timer"
              /\ tick_ch' = 0
    /\ UNCHANGED << mixer, out, chan_num, vm_pc, poisoned, cb_pc >>
    /\ MixKeeps

\* handle_events: the pattern of channel tick_ch, which handle_pattern
\* reads as a stop, as nothing for the mixer, or as a pattern of an
\* instrument
sfx_channel ==
    /\ tick_pc = "chan"
    /\ tick_ch < NUM_CHANNELS
    /\ \/ /\ mixer' = stop_channel_mixer(mixer, tick_ch)
          /\ tick_ch' = tick_ch + 1
          /\ UNCHANGED << tick_pc, mixer_lock, poisoned >>
       \/ /\ tick_ch' = tick_ch + 1
          /\ UNCHANGED << mixer, tick_pc, mixer_lock, poisoned >>
       \/ \E sample \in Instruments, note2 \in Note2s :
          \E m \in from_notes(note2, sample.volume) :
            IF m = None
              THEN /\ tick_pc' = "dead"
                   /\ poisoned' = TRUE
                   /\ mixer_lock' = "free"
                   /\ UNCHANGED << mixer, tick_ch >>
              ELSE LET sample_len == sample.len * 2
                       loop_len == sample.loop_len * 2
                       chunk == [data |-> sample.data, len |-> sample_len,
                                 loop_len |-> loop_len,
                                 loop_pos |-> IF loop_len # 0 THEN sample_len ELSE 0]
                       freq == (7159092 \div (Note1 * 2)) % (MaxWord + 1)
                   IN /\ mixer' = play_channel_mixer(mixer, tick_ch, chunk,
                                                     freq, m % 256)
                      /\ tick_ch' = tick_ch + 1
                      /\ UNCHANGED << tick_pc, mixer_lock, poisoned >>
    /\ UNCHANGED << out, chan_num, vm_pc, cb_pc >>
    /\ MixKeeps

\* handle_events returns and drops the locks
sfx_return ==
    /\ tick_pc = "chan"
    /\ tick_ch = NUM_CHANNELS
    /\ tick_pc' = "idle"
    /\ mixer_lock' = "free"
    /\ UNCHANGED << mixer, out, chan_num, vm_pc, poisoned, cb_pc, tick_ch >>
    /\ MixKeeps

\* the body of `for s in out.iter_mut()` for a channel and the sample s:
\* the channel and the sample after it, whether the loop breaks with the
\* channel taken, and whether an assert fails
mix_sample(channel, s) ==
    LET chunk == channel.chunk
        ilc == channel.chunk_pos % 256
        p1 == channel.chunk_pos \div 256
        looping == chunk.loop_len # 0
        rewind == looping /\ p1 = chunk.loop_pos + chunk.loop_len - 1
        stops == ~looping /\ (chunk.len = 0 \/ p1 = chunk.len - 1)
        p2 == IF rewind THEN chunk.loop_pos ELSE p1 + 1
        after == [channel EXCEPT !.chunk_pos =
                    IF rewind THEN chunk.loop_pos
                    ELSE channel.chunk_pos + channel.chunk_inc]
    IN IF stops
         THEN [ch |-> channel, s |-> s, break |-> TRUE, panic |-> FALSE]
       ELSE IF ~(p1 < Len(chunk.data)) \/ ~(p2 < Len(chunk.data))
         THEN [ch |-> after, s |-> s, break |-> FALSE, panic |-> TRUE]
       ELSE LET b1 == AsI8(chunk.data[p1 + 1])
                b2 == AsI8(chunk.data[p2 + 1])
                b == AsI8((b1 * (255 - ilc) + b2 * ilc) \div 256)
            IN [ch |-> after,
                s |-> add_clamp(s, TruncDiv(b * channel.volume, 64)),
                break |-> FALSE, panic |-> FALSE]

\* `for s in out.iter_mut()` for a channel, from sample k of buf on
RECURSIVE mix_from(_, _, _)
mix_from(channel, buf, k) ==
    IF k > Len(buf) THEN [ch |-> << channel >>, out |-> buf, panic |-> FALSE]
    ELSE LET r == mix_sample(channel, buf[k])
         IN IF r.break THEN [ch |-> << >>, out |-> buf, panic |-> FALSE]
            ELSE IF r.panic THEN [ch |-> << r.ch >>, out |-> buf, panic |-> TRUE]
            ELSE mix_from(r.ch, [buf EXCEPT ![k] = r.s], k + 1)

\* MixerAudio::callback: the write lock is taken and the buffer zeroed
callback_zero ==
    /\ cb_pc = "idle"
    /\ mixer_lock = "free"
    /\ ~poisoned
    /\ cb_pc' = "mixing"
    /\ mixer_lock' = "audio"
    /\ out' = [k \in 1 .. OutLen |-> 0]
    /\ chan_num' = 0
    /\ UNCHANGED << mixer, vm_pc, poisoned, tick_pc, tick_ch >>
    /\ MixKeeps

\* MixerAudio::callback: the turn of channel chan_num
callback_channel ==
    /\ cb_pc = "mixing"
    /\ chan_num < NUM_CHANNELS
    /\ IF mixer[chan_num] = << >>
         THEN /\ chan_num' = chan_num + 1
              /\ UNCHANGED << mixer, out, cb_pc, poisoned, mixer_lock >>
         ELSE LET r == mix_from(mixer[chan_num][1], out, 1)
              IN /\ mixer' = [mixer EXCEPT ![chan_num] = r.ch]
                 /\ out' = r.out
                 /\ IF r.panic
                      THEN /\ cb_pc' = "dead"
                           /\ poisoned' = TRUE
                           /\ mixer_lock' = "free"
                           /\ UNCHANGED chan_num
                      ELSE /\ chan_num' = chan_num + 1
                           /\ UNCHANGED << cb_pc, poisoned, mixer_lock >>
    /\ UNCHANGED << vm_pc, tick_pc, tick_ch >>
    /\ MixKeeps

\* MixerAudio::callback returns: the lock is dropped and the host takes
\* the buffer
callback_return ==
    /\ cb_pc = "mixing"
    /\ chan_num = NUM_CHANNELS
    /\ cb_pc' = "idle"
    /\ mixer_lock' = "free"
    /\ out' = << >>
    /\ chan_num' = 0
    /\ UNCHANGED << mixer, vm_pc, poisoned, tick_pc, tick_ch >>
    /\ MixKeeps

\* Mixer::new; the VM, the timer thread and the audio thread are idle
InitMix ==
    /\ resource = ResourceNew(<< >>)
    /\ threads = [t \in ThreadIds |-> ThreadNew]
    /\ requested_next_part = None
    /\ script_ptr = 0
    /\ stack_ptr = 0
    /\ script_stack_calls = << >>
    /\ goto_next_thread = FALSE
    /\ vm_pc = "exec"
    /\ thread_id = 0
    /\ g_frame0 = [t \in ThreadIds |-> [pc |-> INACTIVE_THREAD, paused |-> FALSE]]
    /\ g_ran = [t \in ThreadIds |-> 0]
    /\ g_blit = FALSE
    /\ AudioNew
    /\ OtherNew

NextMix ==
    \/ \E resource_id \in ResourceIds, freq \in FreqOperands,
          vol \in VolOperands, channel \in ChannelOperands :
         play_sound_resource(resource_id, freq, vol, channel)
    \/ sfx_lock
    \/ sfx_channel
    \/ sfx_return
    \/ callback_zero
    \/ callback_channel
    \/ callback_return

SpecMix == InitMix /\ [][NextMix]_vars

(***************************************************************************)
(* SpecBlit: the frame pacing of BlitFrameBuffer.  Time passes, the script *)
(* writes V[0xFF], and BlitFrameBuffer sleeps and records last_timestamp.  *)
(* The u64 of the milliseconds is TimeBits wide in the model, which keeps  *)
(* what overflows: an i16 below zero is a value near the top of the range, *)
(* and 20 times an i16 that is not below zero fits.                        *)
(***************************************************************************)
TimeBits == 24
\* the clock advances up to MaxClock by the steps of ClockSteps
MaxClock == 100
ClockSteps == {7, 20}
\* values a script writes to V[0xFF]
PauseValues == {-1, 0, 1, 2}
\* what thread::sleep sleeps beyond its argument
Jitter == {0, 1}

\* `as u64` of an i16
AsU64(x) == x % (2 ^ TimeBits)

BlitKeeps ==
    UNCHANGED << threads, requested_next_part, script_ptr, stack_ptr,
                 script_stack_calls, goto_next_thread, resource, thread_id,
                 g_frame0, g_ran, g_blit, aud_vars, load_vars, mix_vars,
                 more_vars >>

\* time passes
elapse ==
    /\ \E dt \in ClockSteps :
         /\ clock + dt <= MaxClock
         /\ clock' = clock + dt
    /\ UNCHANGED << last_timestamp, variables, g_slept, vm_pc >>
    /\ BlitKeeps

\* op_mov_const with variable_id = VM_VARIABLE_PAUSE_SLICES
mov_const_pause_slices ==
    /\ vm_pc # "panic"
    /\ \E value \in PauseValues :
         variables' = [variables EXCEPT ![VM_VARIABLE_PAUSE_SLICES] = value]
    /\ UNCHANGED << clock, last_timestamp, g_slept, vm_pc >>
    /\ BlitKeeps

\* a faulty pacing, which sleeps the whole pause_time
\* time_to_sleep of op_blit_frame_buffer
time_to_sleep(pause_time, delay) == pause_time - delay

\* op_blit_frame_buffer up to update_display, while the clock is within
\* MaxClock.  A build that checks overflow panics when the product does
\* not fit, others wrap it.
blit_frame_buffer_pace ==
    /\ vm_pc # "panic"
    /\ clock <= MaxClock
    /\ LET delay == (clock - last_timestamp) % (2 ^ TimeBits)
           wide == AsU64(variables[VM_VARIABLE_PAUSE_SLICES])
           pause_time == (wide * 20) % (2 ^ TimeBits)
       IN \E checked \in BOOLEAN :
            IF checked /\ wide * 20 >= 2 ^ TimeBits
              THEN /\ vm_pc' = "panic"
                   /\ UNCHANGED << clock, last_timestamp, g_slept >>
              ELSE /\ IF pause_time > delay
                        THEN /\ \E j \in Jitter :
                                  clock' = clock + time_to_sleep(pause_time, delay) + j
                             /\ g_slept' = time_to_sleep(pause_time, delay)
                        ELSE /\ clock' = clock
                             /\ g_slept' = None
                   /\ last_timestamp' = clock'
                   /\ UNCHANGED vm_pc
    /\ UNCHANGED variables
    /\ BlitKeeps

InitBlit ==
    /\ resource = ResourceNew(<< >>)
    /\ threads = [t \in ThreadIds |-> ThreadNew]
    /\ requested_next_part = None
    /\ script_ptr = 0
    /\ stack_ptr = 0
    /\ script_stack_calls = << >>
    /\ goto_next_thread = FALSE
    /\ vm_pc = "exec"
    /\ thread_id = 0
    /\ g_frame0 = [t \in ThreadIds |-> [pc |-> INACTIVE_THREAD, paused |-> FALSE]]
    /\ g_ran = [t \in ThreadIds |-> 0]
    /\ g_blit = FALSE
    /\ AudioNew
    /\ OtherNew

NextBlit ==
    \/ elapse
    \/ mov_const_pause_slices
    \/ blit_frame_buffer_pace

SpecBlit == InitBlit /\ [][NextBlit]_vars

(***************************************************************************)
(* SpecCall: the call stack of one execution slice (vm.rs, op_call and     *)
(* op_ret).  The scripts followed call among CallOffsets while fewer than  *)
(* MaxNest calls are open, and below that recurse at offset 0 (the script  *)
(* `0: Call 0`), which is what fills the stack.                            *)
(***************************************************************************)
STACK_SIZE == 255

\* the operand of Call: the offsets of the subroutines
CallOffsets == {0, 5}

\* calls at arbitrary call sites are followed this deep
MaxNest == 2

\* the largest offset a Call instruction is fetched at
MaxCode == 8

\* the pcs host_frame starts a slice at
SlicePcs == {0, 5}

CallKeeps ==
    UNCHANGED << threads, requested_next_part, goto_next_thread, resource,
                 g_frame0, g_ran, g_blit, aud_vars, load_vars,
                 mix_vars, time_vars, video_vars, jmp_vars >>

\* panic!(msg), or the panic of a failed bounds check
panic(msg) ==
    /\ vm_pc' = "panic"
    /\ diagnostic' = msg

\* a host_frame that starts a slice on the stack as the last slice left it
host_frame_stack_ptr_kept == stack_ptr

\* self.stack_ptr = 0
host_frame_stack_ptr == 0

\* host_frame: the slice that runs has yielded and the slice of a thread,
\* the same one in the next frame or another one, starts at its pc
slice_start ==
    /\ vm_pc = "exec"
    /\ \E n \in SlicePcs : script_ptr' = resource.seg_bytecode + n
    /\ thread_id' \in ThreadIds
    /\ stack_ptr' = host_frame_stack_ptr
    /\ script_stack_calls' = SubSeq(script_stack_calls, 1, host_frame_stack_ptr)
    /\ g_stack' = [k \in 1 .. host_frame_stack_ptr |->
                     [g_stack[k] EXCEPT !.stale = TRUE]]
    /\ g_left' = IF stack_ptr > 0 THEN {thread_id} ELSE {}
    /\ UNCHANGED << vm_pc, diagnostic >>
    /\ CallKeeps

\* script_stack_calls[self.stack_ptr] = value: the bounds check of the
\* array of STACK_SIZE entries comes first (<< >> when it fails)
store_return(value) ==
    IF stack_ptr < STACK_SIZE
      THEN Append(script_stack_calls, value)
      ELSE << >>

\* op_call, after execute_thread has fetched the opcode byte at Off
op_call ==
    /\ vm_pc = "exec"
    /\ Off <= MaxCode
    /\ \E offset \in CallOffsets :
         /\ stack_ptr >= MaxNest => (Off = 0 /\ offset = 0)
         /\ LET ret == (script_ptr + 3) - resource.seg_bytecode
                stored == store_return(ret)
            IN IF stored = << >>
                 THEN /\ panic("index out of bounds")
                      /\ UNCHANGED << script_ptr, stack_ptr, script_stack_calls,
                                      g_stack >>
                 ELSE IF stack_ptr = STACK_SIZE
                   THEN /\ panic("Stack overflow")
                        /\ script_stack_calls' = stored
                        /\ UNCHANGED << script_ptr, stack_ptr, g_stack >>
                   ELSE /\ script_stack_calls' = stored
                        /\ stack_ptr' = stack_ptr + 1
                        /\ script_ptr' = resource.seg_bytecode + offset
                        /\ g_stack' = Append(g_stack, [thread |-> thread_id,
                                                        stale |-> FALSE])
                        /\ UNCHANGED << vm_pc, diagnostic >>
    /\ UNCHANGED << thread_id, g_left >>
    /\ CallKeeps

\* op_ret
op_ret ==
    /\ vm_pc = "exec"
    /\ IF stack_ptr = 0
         THEN /\ panic("Stack underflow!")
              /\ UNCHANGED << script_ptr, stack_ptr, script_stack_calls, g_stack >>
         ELSE /\ stack_ptr' = stack_ptr - 1
              /\ script_ptr' = resource.seg_bytecode + script_stack_calls[stack_ptr]
              /\ script_stack_calls' = SubSeq(script_stack_calls, 1, stack_ptr - 1)
              /\ g_stack' = SubSeq(g_stack, 1, stack_ptr - 1)
              /\ UNCHANGED << vm_pc, diagnostic >>
    /\ UNCHANGED << thread_id, g_left >>
    /\ CallKeeps

InitCall == InitBlit

NextCall ==
    \/ slice_start
    \/ op_call
    \/ op_ret

SpecCall == InitCall /\ [][NextCall]_vars

(***************************************************************************)
(* SpecReset: ResetThread applied to every state the thread records can    *)
(* be in at an opcode boundary.                                            *)
(***************************************************************************)
\* the values of a thread record: a pc or INACTIVE_THREAD, a pending
\* request or none, the two pause flags
ThreadStates ==
    [pc : {0, INACTIVE_THREAD},
     requested_pc_offset : {None, 0, SET_INACTIVE_THREAD},
     is_channel_active_current : BOOLEAN,
     is_channel_active_requested : BOOLEAN]

\* a slice of thread 0 is running
InitReset ==
    /\ resource = ResourceNew(<< >>)
    /\ threads \in [ThreadIds -> ThreadStates]
    /\ requested_next_part = None
    /\ script_ptr = 0
    /\ stack_ptr = 0
    /\ script_stack_calls = << >>
    /\ goto_next_thread = FALSE
    /\ vm_pc = "exec"
    /\ thread_id = 0
    /\ g_frame0 = [t \in ThreadIds |-> [pc |-> INACTIVE_THREAD, paused |-> FALSE]]
    /\ g_ran = [t \in ThreadIds |-> 0]
    /\ g_blit = FALSE
    /\ AudioNew
    /\ OtherNew

NextReset == op_reset_thread

SpecReset == InitReset /\ [][NextReset]_vars

(***************************************************************************)
(* SpecPage: the page pointers and the staged palette of the Video         *)
(* (video.rs), driven by the opcodes SelectVideoPage, FillVideoPage,       *)
(* SetPalette and BlitFrameBuffer.                                         *)
(***************************************************************************)
\* page ids a script passes: the pages, 5 and 64 for the ids that name no
\* page, 0xfe and 0xff
PageOperands == {0, 1, 2, 3, 5, 64, 254, 255}

\* colours FillVideoPage writes
Colors == {0, 1}

\* operands of SetPalette: palettes 1 and 2, and the high bytes 32 and 255
PaletteOperands == {256, 513, 32 * 256, 255 * 256 + 1}

VideoKeeps == UNCHANGED << vm_vars, aud_vars, load_vars, mix_vars, time_vars,
                           call_vars, jmp_vars >>

\* Video::get_page_id
get_page_id(page_id) ==
    CASE page_id \in 0 .. 3 -> page_id
      [] page_id = 255 -> cur_page_ptr3
      [] page_id = 254 -> cur_page_ptr2
      [] OTHER -> 0

\* op_select_video_page: Video::change_page_ptr1
change_page_ptr1 ==
    /\ \E page_id \in PageOperands : cur_page_ptr1' = get_page_id(page_id)
    /\ UNCHANGED << pages, palette_requested, cur_page_ptr2, cur_page_ptr3, g_host >>
    /\ VideoKeeps

\* op_fill_video_page: Video::fill_video_page
fill_video_page ==
    /\ \E page_id \in PageOperands, color \in Colors :
         pages' = [pages EXCEPT ![get_page_id(page_id)] =
                     [y \in 1 .. VideoHeight |-> color]]
    /\ UNCHANGED << palette_requested, cur_page_ptr1, cur_page_ptr2,
                    cur_page_ptr3, g_host >>
    /\ VideoKeeps

\* op_set_palette with the operand word: the palette is named by its id
set_palette_word(word) ==
    LET palette_id == word \div 256 IN
    /\ IF palette_id >= 32
         THEN UNCHANGED palette_requested
         ELSE palette_requested' = << palette_id >>
    /\ UNCHANGED << pages, cur_page_ptr1, cur_page_ptr2, cur_page_ptr3, g_host >>
    /\ VideoKeeps

set_palette == \E word \in PaletteOperands : set_palette_word(word)

\* the page pointers when 0xff sets ptr2 like any other id
display_ptrs_set(page_id) ==
    IF page_id # 254
      THEN [ptr2 |-> get_page_id(page_id), ptr3 |-> cur_page_ptr3]
      ELSE [ptr2 |-> cur_page_ptr2, ptr3 |-> cur_page_ptr3]

\* the page pointers after the first step of Video::update_display
display_ptrs(page_id) ==
    IF page_id # 254
      THEN IF page_id = 255
             THEN [ptr2 |-> cur_page_ptr3, ptr3 |-> cur_page_ptr2]
             ELSE [ptr2 |-> get_page_id(page_id), ptr3 |-> cur_page_ptr3]
      ELSE [ptr2 |-> cur_page_ptr2, ptr3 |-> cur_page_ptr3]

\* the page is presented first and the palette set after it
host_calls_late(requested, ptr2) ==
    << [call |-> "update_display", arg |-> ptr2] >>
    \o (IF requested # << >>
          THEN << [call |-> "set_palette", arg |-> requested[1]] >>
          ELSE << >>)

\* palette_requested.take(), sys.set_palette and sys.update_display
host_calls(requested, ptr2) ==
    (IF requested # << >>
       THEN << [call |-> "set_palette", arg |-> requested[1]] >>
       ELSE << >>)
    \o << [call |-> "update_display", arg |-> ptr2] >>

\* op_blit_frame_buffer: Video::update_display(page_id)
update_display_page(page_id) ==
    LET ptrs == display_ptrs(page_id) IN
    /\ cur_page_ptr2' = ptrs.ptr2
    /\ cur_page_ptr3' = ptrs.ptr3
    /\ palette_requested' = << >>
    /\ g_host' = host_calls(palette_requested, ptrs.ptr2)
    /\ UNCHANGED << pages, cur_page_ptr1 >>
    /\ VideoKeeps

update_display == \E page_id \in PageOperands : update_display_page(page_id)

InitPage == InitBlit

NextPage ==
    \/ change_page_ptr1
    \/ fill_video_page
    \/ set_palette
    \/ update_display

SpecPage == InitPage /\ [][NextPage]_vars

(***************************************************************************)
(* SpecJmp: CondJmp (vm.rs, op_cond_jmp) on the bytes of the instruction   *)
(* and the values of the variables it reads.                               *)
(***************************************************************************)
\* a 16-bit word `as i16`
AsI16(word) == ((word + 32768) % 65536) - 32768

\* values of the variables a script compares
JmpValues == {-1, 0, 1, 255}

\* the variables a script compares
JmpVars == {1, 2}

\* the byte after the CondJmp opcode: the conditions 0 .. 7 with an 8-bit
\* immediate, a 16-bit immediate (0x40) and a variable (0x80), condition 0
\* with both bits, and condition 2 with a bit that selects nothing (0x08)
CondOpcodes == {f + c : f \in {0, 64, 128}, c \in 0 .. 7} \cup {192, 8 + 2}

\* bytes of an immediate operand and of the jump target
ImmBytes == {0, 255}
TargetBytes == {0, 3}

\* CondJmp instructions are fetched up to this offset
MaxJmpOff == 3

JmpKeeps ==
    UNCHANGED << threads, requested_next_part, stack_ptr, script_stack_calls,
                 goto_next_thread, resource, vm_pc, thread_id, g_frame0,
                 g_ran, g_blit, aud_vars, load_vars, mix_vars, clock,
                 last_timestamp, g_slept, call_vars, video_vars >>

\* the 8-bit immediate taken as a signed byte
imm8_signed(x) == IF x >= 128 THEN x - 256 ELSE x

\* self.fetch_byte() as i16
imm8(x) == x

\* op_cond_jmp on the bytes opcode, var, x1, x2 (the operand: x1 alone
\* unless it is a 16-bit immediate) and t1, t2 (the target), after
\* execute_thread has fetched the byte that names CondJmp
cond_jmp(opcode, var, x1, x2, t1, t2) ==
    LET b == variables[var]
        by_var == BitAnd(opcode, 128) > 0
        by_word == ~by_var /\ BitAnd(opcode, 64) > 0
        a == IF by_var THEN variables[x1]
             ELSE IF by_word THEN AsI16(x1 * 256 + x2)
             ELSE imm8(x1)
        fetched == script_ptr + 3 + (IF by_word THEN 2 ELSE 1)
        cond == BitAnd(opcode, 7)
        expr == CASE cond = 0 -> b = a
                  [] cond = 1 -> b # a
                  [] cond = 2 -> b > a
                  [] cond = 3 -> b >= a
                  [] cond = 4 -> b < a
                  [] cond = 5 -> b <= a
                  [] OTHER -> FALSE
    IN /\ vm_pc = "exec"
       /\ Off <= MaxJmpOff
       /\ script_ptr' = IF expr
                          THEN resource.seg_bytecode + (t1 * 256 + t2)
                          ELSE fetched + 2
       /\ g_jmp' = << [opcode |-> opcode, var |-> var, x1 |-> x1, x2 |-> x2,
                        t1 |-> t1, t2 |-> t2, at |-> Off] >>
       /\ UNCHANGED << variables, g_draw, sfx_module, poly, g_last >>
       /\ JmpKeeps

\* the instructions a script holds: the operand is a variable, a word or a
\* byte, as the opcode says
op_cond_jmp_bytes ==
    \E opcode \in CondOpcodes, var \in JmpVars, t1 \in {0}, t2 \in TargetBytes :
      \E x1 \in IF opcode >= 128 THEN JmpVars ELSE ImmBytes :
        \E x2 \in IF opcode < 128 /\ opcode >= 64 THEN ImmBytes ELSE {0} :
          cond_jmp(opcode, var, x1, x2, t1, t2)

InitJmp ==
    /\ resource = ResourceNew(<< >>)
    /\ threads = [t \in ThreadIds |-> ThreadNew]
    /\ requested_next_part = None
    /\ script_ptr = 0
    /\ stack_ptr = 0
    /\ script_stack_calls = << >>
    /\ goto_next_thread = FALSE
    /\ vm_pc = "exec"
    /\ thread_id = 0
    /\ g_frame0 = [t \in ThreadIds |-> [pc |-> INACTIVE_THREAD, paused |-> FALSE]]
    /\ g_ran = [t \in ThreadIds |-> 0]
    /\ g_blit = FALSE
    /\ AudioNew
    /\ res_pc = [op |-> "idle", arg |-> 0, at |-> "", done |-> "", done_arg |-> 0]
    /\ to_load = {}
    /\ memory = << >>
    /\ mixer = [c \in ChannelIds |-> << >>]
    /\ out = << >>
    /\ chan_num = 0
    /\ clock = 0
    /\ last_timestamp = 0
    /\ g_slept = None
    /\ MoreNew
    /\ \E v1 \in JmpValues, v2 \in JmpValues :
         variables = [v \in VarIds |-> IF v = 1 THEN v1 ELSE IF v = 2 THEN v2 ELSE 0]

NextJmp == op_cond_jmp_bytes

SpecJmp == InitJmp /\ [][NextJmp]_vars

(***************************************************************************)
(* SpecCopy: CopyVideoPage (video.rs, copy_page) on pages that             *)
(* FillVideoPage and earlier copies have written, with the scroll          *)
(* variable a script has set.  A page is its rows: a copy moves whole rows.*)
(***************************************************************************)
\* values a script stores in V[VM_VARIABLE_SCROLL_Y]
ScrollValues == -VideoHeight .. VideoHeight

\* src and dst of CopyVideoPage: pages, pages with bit 6 (0x41, 0x44), with
\* bit 7 (0x82), with both (0xc1), 0xfe and 0xff
CopySrcOperands == {0, 1, 64 + 1, 64 + 4, 128 + 2, 192 + 1, 254, 255}
CopyDstOperands == {0, 1, 2, 64 + 1, 255}

CopyKeeps ==
    UNCHANGED << vm_vars, aud_vars, load_vars, mix_vars, clock, last_timestamp,
                 g_slept, call_vars, jmp_vars, palette_requested,
                 cur_page_ptr1, cur_page_ptr2, cur_page_ptr3, g_host >>

\* op_mov_const on the scroll variable
mov_const_scroll_y ==
    /\ \E value \in ScrollValues :
         variables' = [variables EXCEPT ![VM_VARIABLE_SCROLL_Y] = value]
    /\ UNCHANGED pages
    /\ CopyKeeps

\* op_fill_video_page, in SpecCopy
fill_video_page_copy ==
    /\ \E page_id \in PageOperands, color \in Colors :
         pages' = [pages EXCEPT ![get_page_id(page_id)] =
                     [y \in 1 .. VideoHeight |-> color]]
    /\ UNCHANGED variables
    /\ CopyKeeps

\* the selection as bit 6 would make it: no scroll when bit 6 is set
whole_copy_bit6(src_page_id) ==
    \/ src_page_id >= 254
    \/ BitAnd(src_page_id, 128) = 0
    \/ BitAnd(src_page_id, 64) > 0

\* src_page_id >= 0xfe || ((src_page_id & 0xbf) & 0x80) == 0
whole_copy(src_page_id) ==
    \/ src_page_id >= 254
    \/ BitAnd(BitAnd(src_page_id, 191), 128) = 0

\* the rows of the destination page q after the scrolling branch: h rows
\* from row src_i of the source to row dst_i of the destination (rows
\* counted from 0, as the slices are)
scroll_rows(src_page, dst_page, vscroll) ==
    IF vscroll >= -(VideoHeight - 1) /\ vscroll < VideoHeight
      THEN LET h == IF vscroll < 0 THEN VideoHeight + vscroll
                                   ELSE VideoHeight - vscroll
               src_i == IF vscroll < 0 THEN -vscroll ELSE 0
               dst_i == IF vscroll < 0 THEN 0 ELSE vscroll
           IN [y \in 1 .. VideoHeight |->
                 IF y - 1 >= dst_i /\ y - 1 < dst_i + h
                   THEN src_page[(y - 1) - dst_i + src_i + 1]
                   ELSE dst_page[y]]
      ELSE dst_page

\* Video::copy_page(src_page_id, dst_page_id, vscroll)
copy_page(src_page_id, dst_page_id, vscroll) ==
    /\ IF src_page_id = dst_page_id
         THEN UNCHANGED pages
       ELSE IF whole_copy(src_page_id)
         THEN LET src == IF src_page_id < 254 THEN BitAnd(src_page_id, 191)
                                              ELSE src_page_id
                  q == get_page_id(dst_page_id)
              IN pages' = [pages EXCEPT ![q] = pages[get_page_id(src)]]
       ELSE LET src_page == pages[get_page_id(BitAnd(src_page_id, 3))]
                q == get_page_id(dst_page_id)
            IN pages' = [pages EXCEPT ![q] = scroll_rows(src_page, pages[q], vscroll)]
    /\ UNCHANGED variables
    /\ CopyKeeps

\* op_copy_video_page
copy_video_page ==
    \E src_page_id \in CopySrcOperands, dst_page_id \in CopyDstOperands :
      copy_page(src_page_id, dst_page_id, variables[VM_VARIABLE_SCROLL_Y])

InitCopy == InitBlit

NextCopy ==
    \/ mov_const_scroll_y
    \/ fill_video_page_copy
    \/ copy_video_page

SpecCopy == InitCopy /\ [][NextCopy]_vars

(***************************************************************************)
(* SpecSprite: DrawPolySprite (vm.rs, op_draw_poly_sprite) on the bytes    *)
(* that follow it in the script.  The opcode byte is 0x40 + flags; the     *)
(* flags say where x, y and zoom come from.                                *)
(***************************************************************************)
\* the opcode bytes execute_thread hands to op_draw_poly_sprite
SpriteOpcodes == 64 .. 127

\* the byte x and the byte y are read from: a variable index as well
SpriteBytes == {1, 2}
\* the second byte of a 16-bit x or y
SpriteLowBytes == {0, 2}

\* DrawPolySprite instructions are fetched up to this offset
MaxSpriteOff == 6

\* x as a sentence of the flags has it: 10 adds 0x100 as 11 does
x_operand_add(val, x1, x2) ==
    IF BitAnd(val, 32) = 0
      THEN IF BitAnd(val, 16) = 0 THEN x1 * 256 + x2 ELSE variables[x1]
      ELSE x1 + 256

\* x of op_draw_poly_sprite
x_operand(val, x1, x2) ==
    IF BitAnd(val, 32) = 0
      THEN IF BitAnd(val, 16) = 0 THEN x1 * 256 + x2 ELSE variables[x1]
      ELSE IF BitAnd(val, 16) > 0 THEN x1 + 256 ELSE x1

\* y of op_draw_poly_sprite
y_operand(val, y1, y2) ==
    IF BitAnd(val, 8) = 0
      THEN IF BitAnd(val, 4) = 0 THEN y1 * 256 + y2 ELSE variables[y1]
      ELSE y1

\* op_draw_poly_sprite(val) on the bytes x1, x2 (x2 fetched for flags 00),
\* y1, y2 and z (the zoom byte, fetched for flags 01 and 10, put back for
\* 00 and 11)
draw_poly_sprite(val, x1, x2, y1, y2, z) ==
    LET xe == IF BitAnd(val, 32) = 0 /\ BitAnd(val, 16) = 0 THEN 1 ELSE 0
        ye == IF BitAnd(val, 8) = 0 /\ BitAnd(val, 4) = 0 THEN 1 ELSE 0
        rewind == \/ BitAnd(val, 2) = 0 /\ BitAnd(val, 1) = 0
                  \/ BitAnd(val, 2) > 0 /\ BitAnd(val, 1) > 0
        zoom == IF rewind THEN 64
                ELSE IF BitAnd(val, 2) = 0 THEN variables[z]
                ELSE z
        seg == IF BitAnd(val, 2) > 0 /\ BitAnd(val, 1) > 0
                 THEN "Video2" ELSE "Cinematic"
    IN /\ vm_pc = "exec"
       /\ Off <= MaxSpriteOff
       /\ script_ptr' = script_ptr + 1 + 2 + 1 + xe + 1 + ye
                          + (IF rewind THEN 0 ELSE 1)
       /\ g_draw' = << [val |-> val, x1 |-> x1, x2 |-> x2, at |-> Off,
                         x |-> x_operand(val, x1, x2),
                         y |-> y_operand(val, y1, y2),
                         zoom |-> zoom, seg |-> seg] >>
       /\ UNCHANGED << variables, g_jmp, sfx_module, poly, g_last >>
       /\ JmpKeeps

\* the instructions a script holds
op_draw_poly_sprite_bytes ==
    \E val \in SpriteOpcodes, x1 \in SpriteBytes, y1 \in {1}, z \in {2} :
      \E x2 \in IF BitAnd(val, 48) = 0 THEN SpriteLowBytes ELSE {0} :
        \E y2 \in IF BitAnd(val, 12) = 0 THEN SpriteLowBytes ELSE {0} :
          draw_poly_sprite(val, x1, x2, y1, y2, z)

InitSprite == InitJmp

NextSprite == op_draw_poly_sprite_bytes

SpecSprite == InitSprite /\ [][NextSprite]_vars

(***************************************************************************)
(* SpecPlay: one non-looping chunk on channel 0, at any frequency          *)
(* PlaySound or an Sfx tick sets, and the callbacks that play it to its    *)
(* end.                                                                    *)
(***************************************************************************)
\* bytes of the longest chunk followed
MaxChunkLen == 5

\* note1 of the patterns an Sfx tick plays: the ends of 0x37 .. 0xfff and
\* the values around the output rate
PlayNote1s == {55, 161, 162, 4095}

\* handle_pattern: the frequency of note1
note_frequency(note1) == (7159092 \div (note1 * 2)) % (MaxWord + 1)

\* the frequencies a channel is played at
PlayFrequencies ==
    {FREQUENCE_TABLE[i] : i \in DOMAIN FREQUENCE_TABLE} \cup
    {note_frequency(n) : n \in PlayNote1s}

\* the mixer after a play_channel on channel 0 of a chunk that does not loop
InitPlay ==
    /\ resource = ResourceNew(<< >>)
    /\ threads = [t \in ThreadIds |-> ThreadNew]
    /\ requested_next_part = None
    /\ script_ptr = 0
    /\ stack_ptr = 0
    /\ script_stack_calls = << >>
    /\ goto_next_thread = FALSE
    /\ vm_pc = "exec"
    /\ thread_id = 0
    /\ g_frame0 = [t \in ThreadIds |-> [pc |-> INACTIVE_THREAD, paused |-> FALSE]]
    /\ g_ran = [t \in ThreadIds |-> 0]
    /\ g_blit = FALSE
    /\ AudioNew
    /\ res_pc = [op |-> "idle", arg |-> 0, at |-> "", done |-> "", done_arg |-> 0]
    /\ to_load = {}
    /\ memory = << >>
    /\ out = << >>
    /\ chan_num = 0
    /\ TimeNew
    /\ MoreNew
    /\ \E len \in 0 .. MaxChunkLen, frequency \in PlayFrequencies :
         mixer = play_channel_mixer([c \in ChannelIds |-> << >>], 0,
                   MixerChunkNew([k \in 1 .. len |-> 0], len, 0), frequency, 63)

NextPlay ==
    \/ callback_zero
    \/ callback_channel
    \/ callback_return

SpecPlay == InitPlay /\ [][NextPlay]_vars

(***************************************************************************)
(* SpecSeq: the position of the Sfx sequencer over the ticks of the timer  *)
(* thread (sfxplayer.rs, handle_events).  What a tick does to the mixer is *)
(* in SpecAudio and SpecMix; here a tick reads the order table at          *)
(* cur_order and advances the position.                                    *)
(***************************************************************************)
\* order_table: [u8; 0x80]
ORDER_TABLE_LEN == 128

\* pos of PlayMusic, the order the module starts at, and num_order of the
\* module's header
StartOrders == {0, 1}
NumOrders == {2, 3}

SeqKeeps ==
    UNCHANGED << vm_vars, aud_vars, load_vars, mix_vars, time_vars, call_vars,
                 video_vars, g_jmp, g_draw, poly, g_last >>

\* let order = sfx_module.cur_order + 1; if order == num_order { } ;
\* sfx_module.cur_order = order
next_order(m) == m.cur_order + 1

\* SfxPlayer::handle_events: one tick on the module
handle_events_tick ==
    /\ sfx_module.panic = ""
    /\ IF sfx_module.cur_order >= ORDER_TABLE_LEN
         THEN sfx_module' = [sfx_module EXCEPT !.panic = "index out of bounds"]
       ELSE IF sfx_module.cur_pos + 16 >= 1024
         THEN sfx_module' = [sfx_module EXCEPT !.cur_pos = 0,
                                               !.cur_order = next_order(sfx_module)]
       ELSE sfx_module' = [sfx_module EXCEPT !.cur_pos = sfx_module.cur_pos + 16]
    /\ SeqKeeps

\* load_sfx_module: a module that starts at an order below its num_order
InitSeq ==
    /\ resource = ResourceNew(<< >>)
    /\ threads = [t \in ThreadIds |-> ThreadNew]
    /\ requested_next_part = None
    /\ script_ptr = 0
    /\ stack_ptr = 0
    /\ script_stack_calls = << >>
    /\ goto_next_thread = FALSE
    /\ vm_pc = "exec"
    /\ thread_id = 0
    /\ g_frame0 = [t \in ThreadIds |-> [pc |-> INACTIVE_THREAD, paused |-> FALSE]]
    /\ g_ran = [t \in ThreadIds |-> 0]
    /\ g_blit = FALSE
    /\ AudioNew
    /\ res_pc = [op |-> "idle", arg |-> 0, at |-> "", done |-> "", done_arg |-> 0]
    /\ to_load = {}
    /\ memory = << >>
    /\ mixer = [c \in ChannelIds |-> << >>]
    /\ out = << >>
    /\ chan_num = 0
    /\ TimeNew
    /\ diagnostic = ""
    /\ g_stack = << >>
    /\ g_left = {}
    /\ VideoNew
    /\ g_jmp = << >>
    /\ g_draw = << >>
    /\ poly = PolyNew(<< >>, 0)
    /\ g_last = << >>
    /\ \E cur_order \in StartOrders, num_order \in NumOrders :
         sfx_module = SfxModuleNew(cur_order, num_order)

NextSeq == handle_events_tick

SpecSeq == InitSeq /\ [][NextSeq]_vars

(***************************************************************************)
(* SpecPoly: Video::read_polygons on a polygon stream, one call, one child *)
(* record and one return at a time.  poly.stack holds the hierarchy nodes  *)
(* whose loop over the children is running, innermost last; Err is         *)
(* returned through every caller by `?`.                                   *)
(***************************************************************************)
MAX_POINTS == 50

\* hierarchy nodes are followed this deep
MaxPolyDepth == 6

\* Streams: a node with two children (the first with a color) on one leaf;
\* a node whose child is the node itself; a node whose child's child is
\* the node; a node cut short; a node of two levels over a leaf with two
\* points and a byte that is neither leaf nor node.
PolyStreams ==
    { << 2, 0, 0, 1,  128, 7, 0, 0, 5, 0,  0, 7, 0, 0,  192, 0, 0, 0 >>,
      << 2, 0, 0, 0,  0, 0, 0, 0 >>,
      << 2, 0, 0, 0,  0, 4, 0, 0,  2, 0, 0, 0,  0, 0, 0, 0 >>,
      << 2, 0, 0 >>,
      << 2, 0, 0, 1,  0, 6, 0, 0,  0, 11, 0, 0,  2, 0, 0, 0,  0, 10, 0, 0,
         192, 0, 0, 2,  1, 1, 2, 2,  1, 0 >> }

PolyKeeps ==
    UNCHANGED << vm_vars, aud_vars, load_vars, mix_vars, time_vars, call_vars,
                 video_vars, g_jmp, g_draw, sfx_module, g_last >>

\* the byte at position p of the stream
ByteAt(p) == poly.stream[p + 1]

\* n bytes can be read at the cursor
Have(n) == poly.pos + n <= Len(poly.stream)

\* the innermost hierarchy node being read
Top == poly.stack[Len(poly.stack)]

\* read_polygons is called at the cursor (with read_vertices, and with
\* read_polygon_hierarchy up to its loop)
read_polygons_call ==
    /\ poly.pc = "call"
    /\ IF ~Have(1)
         THEN poly' = [poly EXCEPT !.pc = "err"]
       ELSE IF ByteAt(poly.pos) >= 192
         THEN IF ~Have(4)
                THEN poly' = [poly EXCEPT !.pc = "err"]
              ELSE LET num_points == ByteAt(poly.pos + 3)
                   IN IF num_points % 2 # 0 \/ num_points >= MAX_POINTS
                        THEN poly' = [poly EXCEPT !.pc = "panic"]
                      ELSE IF ~Have(4 + 2 * num_points)
                        THEN poly' = [poly EXCEPT !.pc = "err"]
                      ELSE poly' = [poly EXCEPT
                                      !.pos = poly.pos + 4 + 2 * num_points,
                                      !.polygons = poly.polygons + 1,
                                      !.pc = "ret"]
       ELSE IF ByteAt(poly.pos) % 64 = 2
         THEN IF ~Have(4)
                THEN poly' = [poly EXCEPT !.pc = "err"]
              ELSE /\ Len(poly.stack) < MaxPolyDepth
                   /\ poly' = [poly EXCEPT
                                 !.stack = Append(poly.stack,
                                             [node |-> poly.pos,
                                              left |-> ByteAt(poly.pos + 3) + 1,
                                              bak_pos |-> 0]),
                                 !.pos = poly.pos + 4,
                                 !.pc = "loop"]
       ELSE poly' = [poly EXCEPT !.pos = poly.pos + 1, !.pc = "ret"]
    /\ PolyKeeps

\* read_polygon_hierarchy: a turn of the loop up to the call of
\* read_polygons on the child
hierarchy_child ==
    /\ poly.pc = "loop"
    /\ Top.left > 0
    /\ IF ~Have(4)
         THEN poly' = [poly EXCEPT !.pc = "err"]
       ELSE LET bp == ByteAt(poly.pos) * 256 + ByteAt(poly.pos + 1)
                offset == bp % 32768
                colored == bp >= 32768
            IN IF colored /\ ~Have(5)
                 THEN poly' = [poly EXCEPT !.pc = "err"]
               ELSE poly' = [poly EXCEPT
                               !.stack[Len(poly.stack)] =
                                  [Top EXCEPT
                                     !.left = Top.left - 1,
                                     !.bak_pos = poly.pos + 4 +
                                                   (IF colored THEN 2 ELSE 0)],
                               !.pos = offset * 2,
                               !.pc = "call"]
    /\ PolyKeeps

\* read_polygon_hierarchy: the loop is over, the node returns
hierarchy_return ==
    /\ poly.pc = "loop"
    /\ Top.left = 0
    /\ poly' = [poly EXCEPT !.stack = SubSeq(poly.stack, 1, Len(poly.stack) - 1),
                            !.pc = "ret"]
    /\ PolyKeeps

\* read_polygons returns Ok: to read_and_draw_polygon, or to the loop of
\* the node above, which restores the cursor
read_polygons_return ==
    /\ poly.pc = "ret"
    /\ IF poly.stack = << >>
         THEN poly' = [poly EXCEPT !.pc = "done"]
         ELSE poly' = [poly EXCEPT !.pos = Top.bak_pos, !.pc = "loop"]
    /\ PolyKeeps

\* read_and_draw_polygon on a stream, the cursor at a word offset
InitPoly ==
    /\ resource = ResourceNew(<< >>)
    /\ threads = [t \in ThreadIds |-> ThreadNew]
    /\ requested_next_part = None
    /\ script_ptr = 0
    /\ stack_ptr = 0
    /\ script_stack_calls = << >>
    /\ goto_next_thread = FALSE
    /\ vm_pc = "exec"
    /\ thread_id = 0
    /\ g_frame0 = [t \in ThreadIds |-> [pc |-> INACTIVE_THREAD, paused |-> FALSE]]
    /\ g_ran = [t \in ThreadIds |-> 0]
    /\ g_blit = FALSE
    /\ AudioNew
    /\ res_pc = [op |-> "idle", arg |-> 0, at |-> "", done |-> "", done_arg |-> 0]
    /\ to_load = {}
    /\ memory = << >>
    /\ mixer = [c \in ChannelIds |-> << >>]
    /\ out = << >>
    /\ chan_num = 0
    /\ TimeNew
    /\ diagnostic = ""
    /\ g_stack = << >>
    /\ g_left = {}
    /\ VideoNew
    /\ g_jmp = << >>
    /\ g_draw = << >>
    /\ sfx_module = SfxModuleNew(0, 1)
    /\ g_last = << >>
    /\ \E stream \in PolyStreams :
         \E w \in 0 .. (Len(stream) \div 2) : poly = PolyNew(stream, 2 * w)

NextPoly ==
    \/ read_polygons_call
    \/ hierarchy_child
    \/ hierarchy_return
    \/ read_polygons_return

SpecPoly == InitPoly /\ [][NextPoly]_vars

(***************************************************************************)
(* Properties of SpecVM.                                                   *)
(***************************************************************************)
\* host_frame is running (the loop over the threads or a slice)
InFrame == vm_pc \in {"frame", "exec"}

\* the step on which a slice ends: host_frame saves the cursor of thread_id
SliceEnds == vm_pc = "exec" /\ goto_next_thread /\ vm_pc' = "frame"

\* the step on which check_thread_requests returns
CheckReturns == vm_pc = "check" /\ vm_pc' = "input"

\* thread t was runnable when the current host frame began
Runnable0(t) == ~g_frame0[t].paused /\ g_frame0[t].pc # INACTIVE_THREAD

\* C1 -- thread-state atomicity: while host_frame runs, no step changes a
\* thread's is_channel_active_current, and the only pc that changes is the pc
\* of the thread whose slice ends on that step (SetSetVect and ResetThread
\* write requested_pc_offset / is_channel_active_requested only); so every
\* thread the frame has not yet finished with still has the pc and paused
\* flag it had when the frame began, whatever was requested meanwhile.
C1_Steps ==
    InFrame =>
      \A t \in ThreadIds :
        /\ threads'[t].is_channel_active_current = threads[t].is_channel_active_current
        /\ threads'[t].pc # threads[t].pc => (t = thread_id /\ SliceEnds)

C1_FrameStart ==
    InFrame =>
      \A t \in ThreadIds :
        /\ threads[t].is_channel_active_current = g_frame0[t].paused
        /\ t >= thread_id => threads[t].pc = g_frame0[t].pc

C1_ThreadStateAtomicity == [][C1_Steps]_vars /\ []C1_FrameStart

\* a slice is running, SetSetVect has asked for thread 1 to start at 0 and
\* ResetThread has asked for a thread to pause; neither has taken effect
C1_Witness ==
    /\ vm_pc = "exec"
    /\ thread_id = 0
    /\ threads[1].requested_pc_offset = 0
    /\ threads[1].pc = INACTIVE_THREAD
    /\ \E t \in ThreadIds : /\ threads[t].is_channel_active_requested
                            /\ ~threads[t].is_channel_active_current

\* what the threads are after the loop of check_thread_requests ran on ths
Synced(ths_before, ths_after) ==
    \A t \in ThreadIds :
      /\ ths_after[t].is_channel_active_current = ths_before[t].is_channel_active_requested
      /\ ths_after[t].requested_pc_offset = None
      /\ ths_after[t].pc =
           IF ths_before[t].requested_pc_offset = None THEN ths_before[t].pc
           ELSE IF ths_before[t].requested_pc_offset = SET_INACTIVE_THREAD
             THEN INACTIVE_THREAD
           ELSE ths_before[t].requested_pc_offset

\* C2 as stated -- after check_thread_requests returns, every thread is
\* synchronised against the values it had before the call.
C2_Original == [][CheckReturns => Synced(threads, threads')]_vars

\* C2 -- frame synchronisation point: when check_thread_requests returns and
\* no part switch was pending, every thread's is_channel_active_current is
\* the is_channel_active_requested it had before the call, its pc is the
\* request it had (INACTIVE_THREAD for the SET_INACTIVE_THREAD sentinel) or
\* unchanged without one; with or without a part switch no request is left
\* pending and current equals requested.
C2_SyncPoint ==
    [][CheckReturns =>
         /\ requested_next_part = None => Synced(threads, threads')
         /\ \A t \in ThreadIds :
              /\ threads'[t].requested_pc_offset = None
              /\ threads'[t].is_channel_active_current
                   = threads'[t].is_channel_active_requested]_vars

\* check_thread_requests has returned without a part switch (thread 1 is
\* active, which a part switch never leaves), having installed a requested
\* pc for thread 1 and a requested pause
C2_Witness ==
    /\ vm_pc = "input"
    /\ threads[1].pc = 0
    /\ threads[1].requested_pc_offset = None
    /\ \E t \in ThreadIds : threads[t].is_channel_active_current

\* the step on which host_frame starts the slice of thread_id
SliceStarts == vm_pc = "frame" /\ vm_pc' = "exec"

\* host_frame has gone through all the threads and has not been followed by
\* the next synchronisation yet
FrameDone == vm_pc = "check" /\ thread_id = NumThreads

\* C3 -- scheduler order: in one host frame the threads are taken in
\* ascending index order; a thread that was neither paused nor inactive
\* when the frame began has run exactly one slice once the loop has passed
\* it, a paused or inactive one has run none and keeps its pc; a thread the
\* loop has not reached has run none; a slice starts at the thread's saved
\* pc; opcodes execute only in the slice of thread_id, which does not change
\* while the slice runs.
C3_Counts ==
    (InFrame \/ FrameDone) =>
      \A t \in ThreadIds :
        /\ t < thread_id =>
             /\ g_ran[t] = (IF Runnable0(t) THEN 1 ELSE 0)
             /\ ~Runnable0(t) => threads[t].pc = g_frame0[t].pc
        /\ t > thread_id => g_ran[t] = 0
        /\ t = thread_id => g_ran[t] = (IF vm_pc = "exec" THEN 1 ELSE 0)
        /\ (t = thread_id /\ vm_pc = "exec") => Runnable0(t)

C3_Steps ==
    /\ SliceStarts =>
         /\ script_ptr' = resource.seg_bytecode + g_frame0[thread_id].pc
         /\ thread_id' = thread_id
    /\ InFrame =>
         \/ thread_id' = thread_id
         \/ thread_id' = thread_id + 1 /\ vm_pc' = "frame"
    /\ script_ptr' # script_ptr => (SliceStarts \/ vm_pc = "exec")

C3_SchedulerOrder == []C3_Counts /\ [][C3_Steps]_vars

\* a host frame has ended in which thread 0 ran its slice and thread 1,
\* active but paused, was skipped
C3_Witness ==
    /\ FrameDone
    /\ g_ran[0] = 1
    /\ g_ran[1] = 0
    /\ g_frame0[1].paused
    /\ g_frame0[1].pc # INACTIVE_THREAD

C4_Steps ==
    /\ (op_pause_thread \/ op_kill_thread) => goto_next_thread'
    /\ (vm_pc = "exec" /\ ~goto_next_thread /\ goto_next_thread')
         => (op_pause_thread \/ op_kill_thread)
    /\ (vm_pc = "exec" /\ vm_pc' = "frame") => goto_next_thread
    /\ op_blit_frame_buffer => (vm_pc' = "exec" /\ ~goto_next_thread')

C5_Steps ==
    /\ (CheckReturns /\ requested_next_part # None) =>
         /\ threads'[0].pc = 0
         /\ \A t \in ThreadIds \ {0} : threads'[t].pc = INACTIVE_THREAD
         /\ \A t \in ThreadIds :
              /\ ~threads'[t].is_channel_active_current
              /\ ~threads'[t].is_channel_active_requested
              /\ threads'[t].requested_pc_offset = None
         /\ requested_next_part' = None
         /\ resource'.current_part_id = requested_next_part
    /\ InFrame => resource'.current_part_id = resource.current_part_id
    /\ (vm_pc = "check" /\ requested_next_part # None) => vm_pc' # "check"

C5_PartSwitch == [][C5_Steps]_vars

\* the part has been switched, from the part the game started with to the
\* last one, after a frame in which thread 0 was not at pc 0
C5_Witness ==
    /\ vm_pc = "input"
    /\ resource.current_part_id = GAME_PART_LAST
    /\ threads[0].pc = 0
    /\ g_frame0[0].pc # 0
    /\ requested_next_part = None

(***************************************************************************)
(* Properties of SpecAudio.                                                *)
(***************************************************************************)
Silent == \A c \in ChannelIds : channels[c] = "none"

\* C6 as stated -- synchronous cancellation: once player.stop() and
\* mixer.stop_all() have run (UpdateMemList(0), init_for_part), all four
\* channels are empty and stay empty until the VM itself plays a sound or
\* starts a module: no tick of the stopped player writes a channel.
C6_Original == g_stopped => Silent

\* the positions of the VM thread at which it holds the lock
VmLocked == {"play_channel_w", "stop_channel_w", "stop_all_w"}

\* C7 -- mixer mutual exclusion: the lock has one holder, which is the
\* thread inside its critical section; a step that changes a channel is a
\* step of the thread that holds the lock; handle_events keeps the lock from
\* its first channel to its last, so that whenever another thread holds the
\* lock (the audio callback mixing, the VM writing) no tick is applied in
\* part (tick_ch = 0).
C7_Inv ==
    /\ (tick_pc = "chan") = (mixer_lock = "timer")
    /\ (cb_pc = "mixing") = (mixer_lock = "audio")
    /\ (aud_pc \in VmLocked) = (mixer_lock = "vm")
    /\ tick_ch # 0 => mixer_lock = "timer"

C7_Steps ==
    channels' # channels =>
      \/ /\ mixer_lock = "vm"
         /\ aud_pc \in VmLocked /\ aud_pc' = "idle"
         /\ UNCHANGED << tick_pc, tick_ch, tick_mark, cb_pc >>
      \/ /\ mixer_lock = "timer"
         /\ tick_pc = "chan" /\ tick_ch' # tick_ch
         /\ UNCHANGED << aud_pc, cb_pc >>
      \/ /\ mixer_lock = "audio"
         /\ cb_pc = "mixing" /\ cb_pc' = "idle"
         /\ UNCHANGED << aud_pc, tick_pc, tick_ch, tick_mark >>

C7_MixerMutualExclusion == []C7_Inv /\ [][C7_Steps]_vars

\* a tick has written two of the four channels and holds the lock, while the
\* VM thread waits for it to stop all channels
C7_Witness ==
    /\ tick_pc = "chan"
    /\ tick_ch = 2
    /\ channels[0] = "sfx"
    /\ aud_pc = "stop_all"
    /\ cb_pc = "idle"

\* C8 as stated -- mark delivery: a mark the ticker has posted is written
\* into variables[VM_VARIABLE_MUS_MARK] by the receive at the next opcode
\* boundary.
C8_Original ==
    [][(execute_thread_recv /\ g_mark # None) => mus_mark' = g_mark]_vars

\* C9 as stated -- mailbox semantics: a tick that posts a mark completes
\* without waiting for the VM (the send can return in every state in which
\* the timer thread is sending).
C9_Original == tick_pc = "send" => ENABLED send_return

Turn == next_to_load(to_load)

\* the entries other than i are as they were
OthersKept(i) ==
    \A j \in DOMAIN resource.mem_list \ {i} :
        resource'.mem_list[j] = resource.mem_list[j]

\* C11 -- a refusal is recoverable: a turn of the loop for a non-PolyAnim
\* entry that does not fit sets the entry to NotNeeded, leaves the cursor,
\* the arena and the other entries as they are, and the loop goes on with
\* the rest of to_load; a turn for an entry that fits and whose bank reads
\* loads it at the cursor, whatever was refused before it in the pass.
C11_Steps ==
    load_turn =>
      /\ Refused(resource, Turn) =>
           /\ resource'.mem_list[Turn].state = "NotNeeded"
           /\ resource'.script_cur_ptr = resource.script_cur_ptr
           /\ memory' = memory
           /\ OthersKept(Turn)
           /\ resource'.panic = ""
           /\ res_pc' = res_pc
           /\ to_load' = to_load \ {Turn}
      /\ ( /\ ~Refused(resource, Turn)
           /\ resource.mem_list[Turn].entry_type # "PolyAnim"
           /\ resource.mem_list[Turn].bank_id # 0
           /\ resource.mem_list[Turn].bank = "ok" ) =>
           /\ resource'.mem_list[Turn].state = "Loaded"
           /\ resource'.mem_list[Turn].buf_ptr = resource.script_cur_ptr
           /\ resource'.script_cur_ptr
                = resource.script_cur_ptr + resource.mem_list[Turn].size
           /\ memory' = Append(memory, << resource.script_cur_ptr, Turn >>)

C11_OutOfArenaRecoverable == [][C11_Steps]_vars

\* load_memory_entry(BigId) on a file whose fill entries are LoadMe: the
\* pass has loaded the fill entries, refused BigId, and loaded the Music
\* entry after it, to the last byte of the arena
C11_Witness ==
    /\ res_pc.op = "load_memory_entry"
    /\ res_pc.arg = BigId
    /\ resource.mem_list[BigId].state = "NotNeeded"
    /\ BigId \notin to_load
    /\ resource.mem_list[MusicId].state = "Loaded"
    /\ memory[Len(memory)] = << NumFill * MaxWord, MusicId >>
    /\ resource.script_cur_ptr = resource.vid_bak_ptr

\* the sum of the sizes of the entries of S
RECURSIVE SumSizes(_, _)
SumSizes(r, S) ==
    IF S = {} THEN 0
    ELSE LET i == MinOf(S)
         IN r.mem_list[i].size + SumSizes(r, S \ {i})

LoadedEntries(r) == {i \in DOMAIN r.mem_list : r.mem_list[i].state = "Loaded"}

\* the step on which a call of setup_part that set the part up returns
SetupReturns == load_return /\ res_pc.op = "setup_part"

\* the step on which a call of setup_part with the current part returns
SetupReturnsEarly == setup_part_call /\ res_pc'.op = "idle"

\* the cursor is the sum of the sizes of the Loaded entries, none of them
\* is a PolyAnim, and the cursor is within the arena
ArenaSum ==
    /\ resource.script_cur_ptr = SumSizes(resource, LoadedEntries(resource))
    /\ \A i \in LoadedEntries(resource) :
         resource.mem_list[i].entry_type # "PolyAnim"
    /\ resource.script_cur_ptr <= resource.vid_bak_ptr

Copied(k) == memory[k][2]

\* C13 as stated -- rank ordering: the bank loads of the load pass of a
\* part setup are in descending rank_num order, and of two entries of
\* equal rank the one with the higher mem-list index is loaded first.
C13_Original ==
    \A a, b \in DOMAIN memory :
        (res_pc.op = "setup_part" /\ a < b) =>
          \/ resource.mem_list[Copied(a)].rank_num
               > resource.mem_list[Copied(b)].rank_num
          \/ /\ resource.mem_list[Copied(a)].rank_num
                  = resource.mem_list[Copied(b)].rank_num
             /\ Copied(a) > Copied(b)

\* the postcondition of setup_part(part_id), part_id being the argument of
\* the call that returned last
SetupPost ==
    LET part_id == res_pc.done_arg
        p == PARTS[part_id - GAME_PART_FIRST + 1]
    IN /\ LoadedEntries(resource) = PartEntries(part_id)
       /\ \A i \in DOMAIN resource.mem_list \ PartEntries(part_id) :
            resource.mem_list[i].state = "NotNeeded"
       /\ resource.seg_palettes = resource.mem_list[p.palette].buf_ptr
       /\ resource.seg_bytecode = resource.mem_list[p.code].buf_ptr
       /\ resource.seg_cinematic = resource.mem_list[p.video1].buf_ptr
       /\ p.video2 # None =>
            resource.seg_video2 = resource.mem_list[p.video2].buf_ptr
       /\ resource.script_bak_ptr = resource.script_cur_ptr
       /\ resource.current_part_id = part_id

\* C14 as stated: SetupPost holds after every call of setup_part that
\* returns, the call with the current part included.
C14_Original == [][(SetupReturns \/ SetupReturnsEarly) => SetupPost']_vars

\* C14 -- setup_part postcondition: for a part id in 0x3E80..0x3E89 other
\* than the current part, when the loads succeed, after setup_part returns
\* exactly the entries of the part are Loaded and every other entry is
\* NotNeeded, the segments are the buf_ptr of the part's entries,
\* script_bak_ptr = script_cur_ptr and current_part_id is the given id.
C14_SetupPart == [][SetupReturns => SetupPost']_vars

\* setup_part(16002) has returned on a file that gave entries as Loaded
\* and LoadMe, after a call had loaded the Music entry
C14_Witness ==
    /\ res_pc.op = "idle"
    /\ res_pc.done = "setup_part"
    /\ res_pc.done_arg = GAME_PART_FIRST + 2
    /\ LoadedEntries(resource) = {17, 26, 27, 28}
    /\ resource.seg_video2 = 0
    /\ resource.seg_palettes = 20000
    /\ resource.mem_list[MusicId].buf_ptr = NumFill * MaxWord

\* what a call of invalidate_resource leaves alone
InvalidateKeeps ==
    /\ \A i \in DOMAIN resource.mem_list :
         resource.mem_list[i].entry_type \notin {"PolyAnim", "Unknown"} =>
           resource'.mem_list[i] = resource.mem_list[i]
    /\ memory' = << >>
    /\ resource'.seg_palettes = resource.seg_palettes
    /\ resource'.seg_bytecode = resource.seg_bytecode
    /\ resource'.seg_cinematic = resource.seg_cinematic
    /\ resource'.seg_video2 = resource.seg_video2
    /\ resource'.script_bak_ptr = resource.script_bak_ptr
    /\ resource'.current_part_id = resource.current_part_id

\* C15 -- invalidate_resource frame: invalidate_resource sets the entries
\* of type PolyAnim or Unknown, and no other, to NotNeeded and sets
\* script_cur_ptr to script_bak_ptr; the entries of the other types, the
\* arena (the call copies nothing), the segment offsets, script_bak_ptr
\* and current_part_id are unchanged.
C15_InvalidateFrame ==
    [][invalidate_resource_call =>
         /\ \A i \in DOMAIN resource.mem_list :
              resource.mem_list[i].entry_type \in {"PolyAnim", "Unknown"} =>
                resource'.mem_list[i] =
                  [resource.mem_list[i] EXCEPT !.state = "NotNeeded"]
         /\ resource'.script_cur_ptr = resource.script_bak_ptr
         /\ InvalidateKeeps]_vars

\* invalidate_resource has returned on a file that gave the Music, small
\* Sound, PolyAnim and Unknown entries as Loaded, after the fill sounds were
\* loaded: the PolyAnim and Unknown entries are NotNeeded, the sounds and
\* the music still Loaded, the cursor back at script_bak_ptr
C15_Witness ==
    /\ res_pc.done = "invalidate_resource"
    /\ resource.current_part_id = 0
    /\ resource.mem_list[AnimId].state = "NotNeeded"
    /\ resource.mem_list[UnknownId].state = "NotNeeded"
    /\ resource.mem_list[MusicId].state = "Loaded"
    /\ resource.mem_list[SmallId].state = "Loaded"
    /\ resource.mem_list[NumFill].state = "Loaded"
    /\ resource.mem_list[NumFill].buf_ptr = (NumFill - 1) * MaxWord
    /\ resource.script_cur_ptr = 0

\* the changes of state of a MemEntry
Transitions ==
    { << "NotNeeded", "LoadMe" >>, << "LoadMe", "NotNeeded" >>,
      << "LoadMe", "Loaded" >>, << "Loaded", "NotNeeded" >> }

\* load_memory_entry was called on an entry that was Loaded
CalledOnLoaded ==
    /\ load_memory_entry_call
    /\ res_pc'.op = "idle"
    /\ resource.mem_list[res_pc'.done_arg].state = "Loaded"

\* C16 -- MemEntry lifecycle: under any sequence of setup_part,
\* load_memory_entry and invalidate_resource, an entry changes state only
\* NotNeeded -> LoadMe, LoadMe -> NotNeeded, LoadMe -> Loaded or
\* Loaded -> NotNeeded (never NotNeeded -> Loaded, never Loaded -> LoadMe),
\* and load_memory_entry on an entry that is Loaded changes no entry, no
\* cursor and copies nothing into the arena.
C16_Lifecycle ==
    [][/\ \A i \in DOMAIN resource.mem_list :
            \/ resource'.mem_list[i].state = resource.mem_list[i].state
            \/ << resource.mem_list[i].state, resource'.mem_list[i].state >>
                 \in Transitions
       /\ CalledOnLoaded => resource' = resource /\ memory' = << >>]_vars

\* load_memory_entry has returned at once on the small sound, which an
\* earlier call had loaded after part 16002 was set up
C16_Witness ==
    /\ res_pc.op = "idle"
    /\ res_pc.done = "load_memory_entry"
    /\ res_pc.done_arg = SmallId
    /\ memory = << >>
    /\ resource.mem_list[SmallId].state = "Loaded"
    /\ resource.mem_list[SmallId].buf_ptr = 20000 + 2048 + 30000 + MaxWord
    /\ resource.script_cur_ptr = 20000 + 2048 + 30000 + MaxWord + 100
    /\ resource.current_part_id = GAME_PART_FIRST + 2

\* the turn is for an entry that load_marked_as_needed reads and unpacks,
\* and the crc register of the unpacker is not zero at the end
CrcFails ==
    /\ load_turn
    /\ ~Refused(resource, Turn)
    /\ resource.mem_list[Turn].bank_id # 0
    /\ resource.mem_list[Turn].bank = "crc"

\* C17 -- CRC failure: when the crc register of the unpacker is not zero
\* after all output has been emitted, the load fails fatally with a CRC
\* error and the call ends there: nothing of the failing entry is copied
\* into the arena, script_cur_ptr is not advanced and no step follows.
C17_CrcFailure ==
    [][/\ resource.panic = ""
       /\ CrcFails =>
            /\ resource'.panic = "CRC Error"
            /\ memory' = memory
            /\ resource'.script_cur_ptr = resource.script_cur_ptr
            /\ resource'.mem_list = resource.mem_list
            /\ res_pc'.op = "panic"]_vars

\* setup_part(16002) has ended in the CRC error of the bytecode, whose bank
\* has a flipped crc word, after the two entries before it were copied
C17_Witness ==
    /\ resource.panic = "CRC Error"
    /\ res_pc.op = "panic"
    /\ res_pc.arg = 27
    /\ memory = << << 0, 17 >>, << 20000, 26 >> >>
    /\ resource.script_cur_ptr = 20000 + 2048
    /\ resource.mem_list[27].state = "LoadMe"
    /\ resource.mem_list[27].bank = BankData(<< 1, 2, 2, 1 >>)
    /\ resource.current_part_id = 0

C19_Original ==
    \A c \in ChannelIds : mixer[c] # << >> => mixer[c][1].volume \in 0 .. 63

\* the PlaySound steps with vol = 0 on a channel of the mixer
StopsSound(c) ==
    \E resource_id \in ResourceIds, freq \in FreqOperands :
      play_sound_resource(resource_id, freq, 0, c)

\* C20 as stated: PlaySound with vol = 0 on channel c in 0 .. 3 empties
\* channel c and leaves the other three channels unchanged, and a callback
\* adds nothing to the output for an empty channel.
C20_Original ==
    [][/\ \A c \in ChannelIds :
            StopsSound(c) =>
              /\ mixer'[c] = << >>
              /\ \A d \in ChannelIds \ {c} : mixer'[d] = mixer[d]
       /\ (callback_channel /\ mixer[chan_num] = << >>) => out' = out]_vars

(***************************************************************************)
(* Properties of SpecBlit.                                                 *)
(***************************************************************************)
\* C21 as stated: at each BlitFrameBuffer, with T = V[0xFF] * 20 and
\* d = clock - last_timestamp, the VM sleeps exactly T - d when that is
\* positive and does not sleep otherwise, then records last_timestamp; so
\* the time from the blit before is at least T.
C21_Original ==
    [][blit_frame_buffer_pace =>
         LET T == variables[VM_VARIABLE_PAUSE_SLICES] * 20
             d == clock - last_timestamp
         IN /\ vm_pc' # "panic"
            /\ g_slept' = IF T - d > 0 THEN T - d ELSE None
            /\ last_timestamp' = clock'
            /\ last_timestamp' - last_timestamp >= T]_vars

(***************************************************************************)
(* Properties of SpecAudio: what the VM thread sees of the timer thread.   *)
(***************************************************************************)
\* C22 as stated: what the VM computes does not depend on the scheduling of
\* the Sfx timer thread.  The VM's variables are what its bytecode reads,
\* so at every opcode boundary V[MUS_MARK] is what the VM left there,
\* wherever the timer thread stands at that moment.
C22_Original == [][execute_thread_recv => mus_mark' = mus_mark]_vars

(***************************************************************************)
(* Properties of SpecCall.                                                 *)
(***************************************************************************)
\* C23 as stated: Call pushes the offset of the following instruction and
\* jumps, Ret resumes at the offset pushed last; with 255 return addresses
\* on the stack a further Call aborts with the stack-overflow diagnostic,
\* Ret on the empty stack aborts with the stack-underflow diagnostic, and
\* neither is ignored or turned into a jump.
C23_Original ==
    [][/\ op_call =>
            IF stack_ptr < STACK_SIZE
              THEN /\ vm_pc' = "exec"
                   /\ stack_ptr' = stack_ptr + 1
                   /\ script_stack_calls' = Append(script_stack_calls, Off + 3)
                   /\ script_ptr' - resource.seg_bytecode \in CallOffsets
              ELSE /\ vm_pc' = "panic"
                   /\ diagnostic' = "Stack overflow"
                   /\ UNCHANGED << script_ptr, stack_ptr >>
       /\ op_ret =>
            IF stack_ptr > 0
              THEN /\ vm_pc' = "exec"
                   /\ stack_ptr' = stack_ptr - 1
                   /\ script_ptr' - resource.seg_bytecode
                        = script_stack_calls[Len(script_stack_calls)]
                   /\ script_stack_calls'
                        = SubSeq(script_stack_calls, 1, stack_ptr - 1)
              ELSE /\ vm_pc' = "panic"
                   /\ diagnostic' = "Stack underflow!"
                   /\ UNCHANGED << script_ptr, stack_ptr >>]_vars

(***************************************************************************)
(* Properties of SpecReset.                                                *)
(***************************************************************************)
\* C24 -- ResetThread range: ResetThread(from, to, a) with i = to masked to
\* a thread index and i >= from changes exactly the threads from .. i:
\* a = 0 clears is_channel_active_requested, a = 1 sets it, a = 2 requests
\* the deactivation SET_INACTIVE_THREAD; every other thread and every pc and
\* is_channel_active_current stay as they are; with i < from no thread
\* changes.
C24_ResetThreadRange ==
    [][\A from \in 0 .. NumThreads, to \in 0 .. 2 * NumThreads - 1, a \in 0 .. 2 :
         reset_thread(from, to, a) =>
           LET i == BitAnd(to, NumThreads - 1) IN
           \A t \in ThreadIds :
             IF from <= t /\ t <= i
               THEN /\ threads'[t].pc = threads[t].pc
                    /\ threads'[t].is_channel_active_current
                         = threads[t].is_channel_active_current
                    /\ threads'[t].is_channel_active_requested
                         = CASE a = 0 -> FALSE
                             [] a = 1 -> TRUE
                             [] OTHER -> threads[t].is_channel_active_requested
                    /\ threads'[t].requested_pc_offset
                         = IF a = 2 THEN SET_INACTIVE_THREAD
                                    ELSE threads[t].requested_pc_offset
               ELSE threads'[t] = threads[t]]_vars

\* one ResetThread with i >= from has executed (opcode and three operand
\* bytes fetched), and every thread, the last one too, is paused and has
\* the deactivation requested
C24_Witness ==
    /\ vm_pc = "exec"
    /\ script_ptr = resource.seg_bytecode + 4
    /\ \A t \in ThreadIds :
         /\ threads[t].is_channel_active_requested
         /\ threads[t].requested_pc_offset = SET_INACTIVE_THREAD

(***************************************************************************)
(* Properties of SpecPage.                                                 *)
(***************************************************************************)
\* C25 -- page pointers: a blit with id 0xff swaps cur_page_ptr2 and
\* cur_page_ptr3, with id 0xfe it leaves both, with any other id it sets
\* cur_page_ptr2 to the page the id resolves to (0 .. 3 itself, any other
\* id page 0) and leaves cur_page_ptr3; a blit changes neither
\* cur_page_ptr1 nor the contents of a page; and whatever ids
\* SelectVideoPage and BlitFrameBuffer are given, the three pointers stay
\* in 0 .. 3.
C25_PagePointers ==
    /\ [](/\ cur_page_ptr1 \in PageIndex
          /\ cur_page_ptr2 \in PageIndex
          /\ cur_page_ptr3 \in PageIndex)
    /\ [][\A page_id \in PageOperands :
            update_display_page(page_id) =>
              /\ cur_page_ptr1' = cur_page_ptr1
              /\ pages' = pages
              /\ CASE page_id = 255 ->
                        /\ cur_page_ptr2' = cur_page_ptr3
                        /\ cur_page_ptr3' = cur_page_ptr2
                   [] page_id = 254 ->
                        UNCHANGED << cur_page_ptr2, cur_page_ptr3 >>
                   [] OTHER ->
                        /\ cur_page_ptr2' = IF page_id \in 0 .. 3 THEN page_id ELSE 0
                        /\ cur_page_ptr3' = cur_page_ptr3]_vars

\* blits have swapped the pointers (only a swap changes cur_page_ptr3) and
\* resolved an id to page 0, on pages that were filled
C25_Witness ==
    /\ g_host # << >>
    /\ cur_page_ptr3 = 3
    /\ cur_page_ptr2 = 0
    /\ cur_page_ptr1 = 1
    /\ pages[3] # PageNew

\* C26 -- palette staging: SetPalette with a high byte below 32 stages that
\* palette, replacing one staged before, and with a high byte of 32 or more
\* leaves the staged palette as it is; neither sends anything to the host.
\* A blit with a palette staged sends it to the host once, before it
\* presents the page, and leaves none staged, so that a later blit without a
\* new SetPalette only presents the page.
C26_PaletteStaging ==
    [][/\ \A word \in PaletteOperands :
            set_palette_word(word) =>
              /\ g_host' = g_host
              /\ palette_requested' = IF word \div 256 < 32
                                        THEN << word \div 256 >>
                                        ELSE palette_requested
       /\ \A page_id \in PageOperands :
            update_display_page(page_id) =>
              /\ palette_requested' = << >>
              /\ g_host'[Len(g_host')] = [call |-> "update_display",
                                          arg |-> cur_page_ptr2']
              /\ IF palette_requested = << >>
                   THEN Len(g_host') = 1
                   ELSE /\ Len(g_host') = 2
                        /\ g_host'[1] = [call |-> "set_palette",
                                         arg |-> palette_requested[1]]
       /\ (change_page_ptr1 \/ fill_video_page) =>
            UNCHANGED << palette_requested, g_host >>]_vars

\* a blit has sent palette 2 and then presented page 3; nothing is staged
C26_Witness ==
    /\ palette_requested = << >>
    /\ g_host = << [call |-> "set_palette", arg |-> 2],
                   [call |-> "update_display", arg |-> 3] >>

(***************************************************************************)
(* Properties of SpecLoad: the PolyAnim page.                              *)
(***************************************************************************)
\* C27 -- PolyAnim load: a turn of the load that copies a PolyAnim entry
\* copies it to vid_cur_ptr (so no byte below vid_cur_ptr is written),
\* leaves script_cur_ptr as it is and sets copy_vid_ptr; when the call
\* returns with the flag set, the VM copies the decoded page into page 0,
\* leaves the other pages and clears the flag; so between the calls (at the
\* opcode boundaries) copy_vid_ptr is false.
C27_PolyAnimLoad ==
    /\ [](res_pc.op = "idle" => ~resource.copy_vid_ptr)
    /\ [][/\ (/\ load_turn
              /\ resource.mem_list[next_to_load(to_load)].entry_type = "PolyAnim") =>
                /\ resource'.script_cur_ptr = resource.script_cur_ptr
                /\ \A k \in Len(memory) + 1 .. Len(memory') :
                     /\ memory'[k] = << resource.vid_cur_ptr, next_to_load(to_load) >>
                     /\ resource'.copy_vid_ptr
                /\ resource'.copy_vid_ptr # resource.copy_vid_ptr =>
                     Len(memory') = Len(memory) + 1
          /\ load_return =>
                /\ ~resource'.copy_vid_ptr
                /\ \A q \in PageIndex \ {0} : pages'[q] = pages[q]
                /\ pages'[0] = IF resource.copy_vid_ptr
                                 THEN [y \in 1 .. VideoHeight |-> AnimId]
                                 ELSE pages[0]
          /\ pages' # pages => load_return]_vars

\* UpdateMemList has loaded the PolyAnim entry and returned: page 0 holds
\* its page, the flag is clear, script_cur_ptr is where the part left it
C27_Witness ==
    /\ res_pc.op = "idle"
    /\ res_pc.done = "load_memory_entry"
    /\ res_pc.done_arg = AnimId
    /\ pages[0] = [y \in 1 .. VideoHeight |-> AnimId]
    /\ ~resource.copy_vid_ptr
    /\ resource.script_cur_ptr = resource.script_bak_ptr
    /\ resource.script_cur_ptr > 0

(***************************************************************************)
(* Properties of SpecVM: the part requested by a script.                   *)
(***************************************************************************)
\* C28 -- deferred part switch: UpdateMemList with an id from
\* GAME_PART_FIRST on records the id as the pending part and changes
\* nothing else: not the Resource (current part, segments, mem-list
\* states), not the mixer, not a thread record; a later request of the
\* frame replaces it.  While host_frame runs, the current part and the
\* bytecode segment stay those of the old part, so the requesting thread and
\* the threads after it run the old bytecode; the part recorded last is the
\* one check_thread_requests sets up when the next frame begins.
C28_Steps ==
    /\ \A resource_id \in {id \in MemOperands : id >= GAME_PART_FIRST} :
         update_memlist(resource_id) =>
           /\ requested_next_part' = resource_id
           /\ resource' = resource
           /\ threads' = threads
           /\ channels' = channels
           /\ vm_pc' = "exec"
    /\ InFrame =>
         /\ resource'.current_part_id = resource.current_part_id
         /\ resource'.seg_bytecode = resource.seg_bytecode
         /\ (requested_next_part' # requested_next_part => op_update_memlist)
    /\ (CheckReturns /\ requested_next_part # None) =>
         /\ resource'.current_part_id = requested_next_part
         /\ requested_next_part' = None

C28_DeferredPartSwitch == [][C28_Steps]_vars

\* a thread has requested a part with UpdateMemList (no input requests this
\* id) and a later thread of the frame runs, in the part the game started
\* with
C28_Witness ==
    /\ vm_pc = "exec"
    /\ thread_id > 0
    /\ requested_next_part = GAME_PART_LAST + 1
    /\ resource.current_part_id = GAME_PART_FIRST + 1
    /\ g_ran[0] > 0

(***************************************************************************)
(* Properties of SpecJmp.                                                  *)
(***************************************************************************)
\* C29 -- CondJmp: b is V[var]; a is another variable when bit 7 of the
\* opcode byte is set, else the signed 16-bit immediate when bit 6 is set,
\* else the unsigned 8-bit immediate.  The branch is taken exactly when the
\* signed comparison the low three bits select holds (0 ==, 1 !=, 2 >,
\* 3 >=, 4 <, 5 <=) and never for 6 and 7; taken or not, the 16-bit target
\* is consumed (a branch not taken continues after it); no variable
\* changes.
C29_State ==
    g_jmp # << >> =>
      LET i == g_jmp[1]
          b == variables[i.var]
          bit7 == (i.opcode \div 128) % 2 = 1
          bit6 == (i.opcode \div 64) % 2 = 1
          word == i.x1 * 256 + i.x2
          a == IF bit7 THEN variables[i.x1]
               ELSE IF bit6
                 THEN (IF word >= 32768 THEN word - 65536 ELSE word)
               ELSE i.x1
          size == 1 + 1 + 1 + (IF ~bit7 /\ bit6 THEN 2 ELSE 1) + 2
          taken == \/ i.opcode % 8 = 0 /\ b = a
                   \/ i.opcode % 8 = 1 /\ b # a
                   \/ i.opcode % 8 = 2 /\ b > a
                   \/ i.opcode % 8 = 3 /\ b >= a
                   \/ i.opcode % 8 = 4 /\ b < a
                   \/ i.opcode % 8 = 5 /\ b <= a
      IN Off = IF taken THEN i.t1 * 256 + i.t2 ELSE i.at + size

C29_CondJmp == []C29_State /\ [][variables' = variables]_vars

\* CondJmp has compared a variable that holds -1 with the 8-bit immediate
\* 0xff for equality: the branch was not taken and the cursor is after the
\* target
C29_Witness ==
    /\ g_jmp # << >>
    /\ g_jmp[1].opcode = 0
    /\ g_jmp[1].x1 = 255
    /\ g_jmp[1].var = 1
    /\ variables[1] = -1
    /\ Off = g_jmp[1].at + 6

(***************************************************************************)
(* Properties of SpecCopy.                                                 *)
(***************************************************************************)
\* C30 as stated: for every src id below 0xfe with bit 6 set, copy_page
\* copies a whole page to the destination page, without vertical scroll,
\* whatever the scroll variable holds; and on the scrolling path a scroll
\* of height or more, up or down, leaves the destination as it is.
C30_Original ==
    [][\A src_page_id \in CopySrcOperands, dst_page_id \in CopyDstOperands :
         copy_page(src_page_id, dst_page_id, variables[VM_VARIABLE_SCROLL_Y]) =>
           LET vs == variables[VM_VARIABLE_SCROLL_Y]
               q == get_page_id(dst_page_id)
           IN /\ (src_page_id < 254 /\ (src_page_id \div 64) % 2 = 1) =>
                   \E p \in PageIndex : pages' = [pages EXCEPT ![q] = pages[p]]
              /\ (/\ src_page_id < 254
                  /\ (src_page_id \div 64) % 2 = 0
                  /\ src_page_id >= 128
                  /\ (vs >= VideoHeight \/ vs <= -VideoHeight)) =>
                   pages' = pages]_vars

\* the page an id names once bit 6 is dropped: 0 .. 3 itself, any other
\* id page 0
Resolved(id) == IF id % 64 \in 0 .. 3 /\ id < 128 THEN id % 64 ELSE 0

\* C30 -- copy_page scroll selection: bit 7 of the src id selects the
\* path and bit 6 is ignored.  With src and dst ids equal nothing is
\* copied.  Otherwise, for a src id below 0xfe with bit 7 clear the whole
\* page the id names (bit 6 dropped) is copied to the destination
\* whatever the scroll variable holds; with bit 7 set, bit 6 set or not,
\* row y of the destination becomes row y - vs of page src & 3 where that
\* row exists and stays as it is elsewhere, so that a scroll of height or
\* more, up or down, leaves the destination as it is.
C30_CopyPageScroll ==
    [][\A src_page_id \in CopySrcOperands, dst_page_id \in CopyDstOperands :
         copy_page(src_page_id, dst_page_id, variables[VM_VARIABLE_SCROLL_Y]) =>
           LET vs == variables[VM_VARIABLE_SCROLL_Y]
               q == get_page_id(dst_page_id)
           IN IF src_page_id = dst_page_id
                THEN pages' = pages
              ELSE IF src_page_id >= 254
                THEN TRUE
              ELSE IF src_page_id < 128
                THEN pages' = [pages EXCEPT ![q] = pages[Resolved(src_page_id)]]
              ELSE /\ \A p \in PageIndex \ {q} : pages'[p] = pages[p]
                   /\ \A y \in 1 .. VideoHeight :
                        pages'[q][y] = IF y - vs \in 1 .. VideoHeight
                                         THEN pages[src_page_id % 4][y - vs]
                                         ELSE pages[q][y]
                   /\ (vs >= VideoHeight \/ vs <= -VideoHeight) =>
                        pages' = pages]_vars

\* a copy from an id with bits 6 and 7 set has scrolled: page 0 holds a row
\* of page 1 under a row of its own, with the scroll variable at 1
C30_Witness ==
    /\ variables[VM_VARIABLE_SCROLL_Y] = 1
    /\ pages[0][1] = 1
    /\ pages[0][2] = 0
    /\ pages[1] = PageNew
    /\ pages[2] = PageNew
    /\ pages[3] = PageNew

(***************************************************************************)
(* Properties of SpecSprite.                                               *)
(***************************************************************************)
\* extra script bytes the x operand of the DrawPolySprite at g_draw took:
\* the cursor stands after the opcode, the offset word, x, y, the second
\* byte of y and the zoom byte
C31_ExtraX ==
    LET i == g_draw[1]
    IN Off - i.at - 5
         - (IF (i.val \div 4) % 4 = 0 THEN 1 ELSE 0)
         - (IF i.val % 4 \in {1, 2} THEN 1 ELSE 0)

\* C31 as stated: flags 10 take x as the first byte plus 0x100, as 11 does.
C31_Original ==
    g_draw # << >> =>
      LET i == g_draw[1]
      IN (i.val \div 16) % 4 \in {2, 3} => i.x = i.x1 + 256

\* C31 -- DrawPolySprite x operand: for opcode flag bits 5..4, 00 reads a
\* second byte and forms the big-endian 16-bit x, 01 takes x from the
\* variable the first byte names, 10 takes x as the first byte itself and 11
\* as the first byte plus 0x100; exactly one extra script byte is consumed
\* for 00 and none for the other three values.
C31_SpriteX ==
    g_draw # << >> =>
      LET i == g_draw[1]
          f == (i.val \div 16) % 4
      IN /\ f = 0 => i.x = i.x1 * 256 + i.x2 /\ C31_ExtraX = 1
         /\ f = 1 => i.x = variables[i.x1] /\ C31_ExtraX = 0
         /\ f = 2 => i.x = i.x1 /\ C31_ExtraX = 0
         /\ f = 3 => i.x = i.x1 + 256 /\ C31_ExtraX = 0

\* a DrawPolySprite with flags 10 has drawn at x = 2, its first byte, and a
\* variable holds something else
C31_Witness ==
    /\ g_draw # << >>
    /\ (g_draw[1].val \div 16) % 4 = 2
    /\ g_draw[1].x1 = 2
    /\ g_draw[1].x = 2
    /\ variables[2] = 255
    /\ Off = g_draw[1].at + 5

(***************************************************************************)
(* Properties of SpecRes: the ranges of the Loaded entries.                *)
(***************************************************************************)
\* C32 as stated: once a part is set up, whatever setup_part,
\* load_memory_entry and invalidate_resource have been called, the arena
\* ranges [buf_ptr, buf_ptr + size) of the entries in state Loaded are
\* pairwise disjoint and lie within [0, script_cur_ptr).
C32_Original ==
    LET L == LoadedEntries(resource)
        lo(i) == resource.mem_list[i].buf_ptr
        hi(i) == resource.mem_list[i].buf_ptr + resource.mem_list[i].size
    IN (resource.current_part_id # 0 /\ resource.panic = "") =>
         /\ \A i \in L : hi(i) <= resource.script_cur_ptr
         /\ \A i \in L, j \in L :
              i # j => hi(i) <= lo(j) \/ hi(j) <= lo(i)

(***************************************************************************)
(* Properties of SpecLoad: the entries when a call has returned.           *)
(***************************************************************************)
\* setup_part or load_memory_entry has returned, and no call is in progress
C33_Returned ==
    /\ res_pc.op = "idle"
    /\ res_pc.done \in {"setup_part", "load_memory_entry"}

\* no entry is LoadMe, and no PolyAnim entry is Loaded
C33_AtRest ==
    \A i \in DOMAIN resource.mem_list :
      /\ resource.mem_list[i].state # "LoadMe"
      /\ resource.mem_list[i].entry_type = "PolyAnim" =>
           resource.mem_list[i].state # "Loaded"

\* C33 as stated: whenever setup_part or load_memory_entry returns, no
\* entry is LoadMe and no PolyAnim entry is Loaded.
C33_Original == C33_Returned => C33_AtRest

\* C33 -- no pending loads at rest: once setup_part has set a part up,
\* whenever setup_part or load_memory_entry returns no mem-list entry is in
\* state LoadMe, and an entry of type PolyAnim is never in state Loaded,
\* during a call or between calls.
C33_NoPendingLoads ==
    resource.current_part_id # 0 =>
      /\ C33_Returned => C33_AtRest
      /\ \A i \in DOMAIN resource.mem_list :
           resource.mem_list[i].entry_type = "PolyAnim" =>
             resource.mem_list[i].state # "Loaded"

\* load_memory_entry has returned from the PolyAnim entry, which it copied
\* to the video region and left NotNeeded, after part 16002 was set up on a
\* file that gave entries as LoadMe
C33_Witness ==
    /\ C33_Returned
    /\ res_pc.done = "load_memory_entry"
    /\ res_pc.done_arg = AnimId
    /\ resource.current_part_id = GAME_PART_FIRST + 2
    /\ resource.mem_list[AnimId].state = "NotNeeded"
    /\ Len(memory) = 1
    /\ memory[1] = << resource.vid_cur_ptr, AnimId >>
    /\ resource.mem_list[27].state = "Loaded"

(***************************************************************************)
(* Properties of SpecCall: the call stack and the slices.                  *)
(***************************************************************************)
\* every live return address was pushed by the thread that runs, in the
\* slice that runs
C34_State ==
    /\ stack_ptr = Len(g_stack)
    /\ \A k \in 1 .. Len(g_stack) :
         g_stack[k].thread = thread_id /\ ~g_stack[k].stale

\* C34 -- the call stack is per slice: the call stack is empty at the
\* start of every execution slice, so the return addresses a thread pushed
\* before it yielded are not there when a slice starts, a Ret pops only an
\* address that the running thread pushed in the running slice, and a Ret
\* that finds the stack empty aborts the run.
C34_CallStackPerSlice ==
    /\ []C34_State
    /\ [][/\ slice_start => stack_ptr' = 0 /\ script_stack_calls' = << >>
          /\ (op_ret /\ stack_ptr = 0) => vm_pc' = "panic"
          /\ (op_ret /\ stack_ptr > 0) =>
               /\ g_stack[stack_ptr].thread = thread_id
               /\ ~g_stack[stack_ptr].stale]_vars

\* thread 1 yielded with a return address on the stack, a slice of thread 0
\* started, called, returned, and its next Ret found the stack empty
C34_Witness ==
    /\ g_left = {1}
    /\ thread_id = 0
    /\ vm_pc = "panic"
    /\ diagnostic = "Stack underflow!"
    /\ Off = 3

(***************************************************************************)
(* Properties of SpecMix: the positions the callback reads at.             *)
(***************************************************************************)
\* C35 as stated: for every channel PlaySound or an Sfx tick has started,
\* looping or not, the indices p1 and p2 the callback reads at are below
\* the length of the chunk's data: neither assert of the callback fails.
C35_Original == cb_pc # "dead"

(***************************************************************************)
(* Properties of SpecPlay.                                                 *)
(***************************************************************************)
\* C36 as stated, for the samples played so far: a chunk that does not loop
\* is removed at the sample where its integer position p1 reaches len - 1,
\* for every frequency; so while it is on the channel p1 is at most
\* len - 1, and the callback has not stopped at a failed assert.
C36_Original ==
    /\ cb_pc # "dead"
    /\ \A c \in ChannelIds :
         (mixer[c] # << >> /\ mixer[c][1].chunk.loop_len = 0
            /\ mixer[c][1].chunk.len > 0) =>
           mixer[c][1].chunk_pos \div 256 <= mixer[c][1].chunk.len - 1

(***************************************************************************)
(* Properties of SpecMix: the channel PlaySound addresses.                 *)
(***************************************************************************)
\* C37 as stated: for every channel operand ch, PlaySound with vol = 0
\* empties mixer channel ch & 3 and PlaySound with another vol leaves
\* every channel but ch & 3 as it is; no index outside 0 .. 3 is used, so
\* the VM does not stop at a failed bounds check.
C37_Original ==
    [][\A channel \in ChannelOperands :
         /\ (/\ ~poisoned
             /\ \E resource_id \in ResourceIds, freq \in FreqOperands :
                  play_sound_resource(resource_id, freq, 0, channel)) =>
              /\ vm_pc' # "panic"
              /\ mixer' = stop_channel_mixer(mixer, BitAnd(channel, 3))
         /\ (\E resource_id \in ResourceIds, freq \in FreqOperands :
               play_sound_resource(resource_id, freq, 255, channel)) =>
              \A d \in ChannelIds \ {BitAnd(channel, 3)} : mixer'[d] = mixer[d]]_vars

(***************************************************************************)
(* Properties of SpecSeq.                                                  *)
(***************************************************************************)
\* C38 as stated: at every tick boundary cur_pos is a multiple of 16 in
\* 0 .. 1023, cur_order grows by one exactly when cur_pos wraps, cur_order
\* is never past num_order, and the read of the order table never fails.
C38_Original ==
    /\ [](/\ sfx_module.cur_pos % 16 = 0
          /\ sfx_module.cur_pos >= 0
          /\ sfx_module.cur_pos < 1024
          /\ sfx_module.cur_order <= sfx_module.num_order
          /\ sfx_module.cur_order < ORDER_TABLE_LEN
          /\ sfx_module.panic = "")
    /\ [][sfx_module'.cur_order =
            IF sfx_module'.cur_pos < sfx_module.cur_pos
              THEN sfx_module.cur_order + 1
              ELSE sfx_module.cur_order]_vars

(***************************************************************************)
(* Properties of SpecPoly.                                                 *)
(***************************************************************************)
\* C39 as stated, for the steps made so far: read_polygons returns after
\* finitely many steps on every stream, also when a child offset refers to
\* the node itself or to an ancestor.  What a node reads depends on the
\* stream and the node's position alone, so a node that is read while it
\* is being read is read again without end: no node is twice among the
\* nodes being read when the reading ends.
C39_Original ==
    \A j \in 1 .. Len(poly.stack), k \in 1 .. Len(poly.stack) :
      j # k => poly.stack[j].node # poly.stack[k].node

(***************************************************************************)
(* Properties of SpecLast.                                                 *)
(***************************************************************************)
\* the pc asked for last for thread t in the current host frame
LastAsked(t) == g_last[t][1].pc

\* the step asks for a pc for thread t
AsksPc(t) == g_last'[t] # << >> /\ g_last'[t] # g_last[t]

\* a step that asks for a pc for a thread leaves the pause asked for that
\* thread alone
PauseKept ==
    \A t \in ThreadIds :
      AsksPc(t) => threads'[t].is_channel_active_requested
                     = threads[t].is_channel_active_requested

\* the pc a thread gets for the pc asked for: SetSetVect's 0xFFFE is the
\* value ResetThread mode 2 asks with
Granted(pc) == IF pc = SET_INACTIVE_THREAD THEN INACTIVE_THREAD ELSE pc

\* thread t has the pc asked for last in the frame and the pause asked for
LastWins(t) ==
    /\ threads'[t].pc = Granted(LastAsked(t))
    /\ threads'[t].is_channel_active_current
         = threads[t].is_channel_active_requested

\* C40 as stated -- last request wins: when check_thread_requests returns,
\* a thread for which SetSetVect or ResetThread mode 2 asked for a pc in the
\* host frame has the pc asked for last (inactive for mode 2) and the pause
\* flag asked for it, which no request of a pc changes.
C40_Original ==
    [][/\ CheckReturns => \A t \in ThreadIds : g_last[t] # << >> => LastWins(t)
       /\ PauseKept]_vars

\* C40 -- last request wins: when check_thread_requests returns and no part
\* switch was pending, a thread for which SetSetVect or ResetThread mode 2
\* asked for a pc in the host frame has the pc asked for last (inactive for
\* mode 2) and the pause flag asked for it, which no request of a pc
\* changes; when a part switch was pending, what was asked for is dropped:
\* thread 0 is at 0, the others are inactive and none is paused.
C40_LastRequestWins ==
    [][/\ CheckReturns =>
            \A t \in ThreadIds :
              g_last[t] # << >> =>
                IF requested_next_part = None
                  THEN LastWins(t)
                  ELSE /\ threads'[t].pc = IF t = 0 THEN 0 ELSE INACTIVE_THREAD
                       /\ ~threads'[t].is_channel_active_current
       /\ PauseKept]_vars

\* check_thread_requests has returned without a part switch: in the host
\* frame before it a pc other than 0 and then, by SetSetVect, the pc 0 were
\* asked for thread 1, and a pause was asked for it; the thread has the pc
\* of the SetSetVect and is paused
C40_Witness ==
    /\ vm_pc = "input"
    /\ g_last[1] = << [pc |-> 0, over |-> TRUE] >>
    /\ threads[1].pc = 0
    /\ threads[1].requested_pc_offset = None
    /\ threads[1].is_channel_active_current

====
